---- MODULE Spec2Model ----
(***************************************************************************)
(* Connect Four: the board (connectfour.ConnectFour) and the match         *)
(* orchestrator (connectfourgame.ConnectFourMatch.play).                   *)
(*                                                                         *)
(* Two specifications share the variables:                                 *)
(*   Spec       one call of ConnectFourMatch.play on a fresh board, cut    *)
(*              into steps at every call play makes on a player or on the  *)
(*              board;                                                     *)
(*   SpecBoard  a caller that drives ConnectFour.add_disc directly, with   *)
(*              any column and any of the two colours, as the tests of     *)
(*              connectfour.py do.                                         *)
(***************************************************************************)
EXTENDS Integers, Sequences, FiniteSets, TLC

\* ------------------------------------------------------------ constants
ROWS == 6
COLUMNS == 7

EMPTY == 0
WHITE == 1
RED == 2

\* Python's None (the value of ConnectFour._winner before a win, and the
\* value play returns for a draw).  An integer outside the colours, so that
\* it compares with them.
None == -1

REWARD_DRAW == 0
REWARD_LEGAL_MOVE == 0
REWARD_ILLEGAL_MOVE == -2
REWARD_LOSS == -1
REWARD_WIN == 1

\* ------------------------------------------------------------ bounds
\* Number of inputs a caller (a player, or the driver of the board) may take
\* from outside its script in one run
MaxDeviations == 1

\* Number of proposals of the afterstate player that take the exploratory
\* branch in one training; every proposal of the training is made, and
\* random.random() is drawn in each one made while learning
MaxExplorations == 1

\* ------------------------------------------------------------ inputs
\* Column values handed to add_disc: every column of the grid, every negative
\* index numpy accepts (-COLUMNS..-1), and one value beyond each end.
ColumnInputs == (0 - (COLUMNS + 1))..COLUMNS

Colours == {WHITE, RED}

\* A game of 42 legal moves, WHITE first, that fills the grid without a line
\* of four; the columns the two players propose when they do not deviate.
\*     RRRWRWR
\*     RWWWRWW
\*     WRWRWWW
\*     RRWWRRW
\*     RRRWRRR
\*     WWRRWWW
DrawScript ==
    << 0, 0, 1, 0, 0, 0, 4, 0, 5, 1, 6, 3, 3, 1, 3, 1, 1, 3, 3, 1, 3,
       6, 6, 2, 6, 2, 2, 4, 2, 4, 2, 2, 4, 5, 6, 5, 5, 4, 5, 4, 5, 6 >>

VARIABLES
    grid,       \* ConnectFour._grid: grid[row][column], row 0 at the bottom
    winner,     \* ConnectFour._winner
    raised,     \* what the last add_disc call raised: "none", "IllegalMove", "IndexError"
    column,     \* the column argument of the last add_disc call (once add_disc_call_count > 0)
    colour,     \* the colour argument of the last add_disc call (once add_disc_call_count > 0)
    pc,         \* position of play
    move_number,\* play's loop variable
    move,       \* play's local: the column the current player proposed (once proposed)
    propose_move_call_count,    \* per player, as test_method_call_sequence counts
    receive_reward_call_count,  \* per player, as test_method_call_sequence counts
    rewards,    \* per player, the rewards received: <<reward, move_number>> in order
    result,     \* the value play returned (meaningful when pc = "done")
    add_disc_call_count, \* number of add_disc calls made on the board
    script,     \* which script the driver of the board, the other player of a
                \* training or the caller of a learner follows (0 in a match)
    deviations, \* inputs taken from outside the script so far
    game_grid,  \* connectfourutils: the array handed to count_open_positions
    counts,     \* what count_open_positions returned for game_grid, per colour
    writes,     \* number of assignments made to game_grid
    is_learning,            \* AfterStatePlayer._is_learning
    player_colour,          \* AfterStatePlayer._player_colour
    parameters,             \* SimpleFeaturePlayer._parameters
    next_afterstate_value,  \* AfterStatePlayer._next_afterstate_value
    next_afterstate_matrix, \* AfterStatePlayer._next_afterstate_matrix
    last_afterstate_value,  \* AfterStatePlayer._last_afterstate_value
    last_afterstate_matrix, \* AfterStatePlayer._last_afterstate_matrix
    exploration_drawn,      \* propose_move: whether line 148 took the exploratory branch
    player_class,           \* the class of the player object
    experiences,            \* AdvancedFeaturePlayer._experiences: per entry, the positions in
                            \* arrays of its two arrays, and its reward
    arrays,                 \* the arrays the entries of _experiences refer to, each once
    number_experiences_remembered, \* AdvancedFeaturePlayer._number_experiences_remembered
    learning_frequency,     \* AdvancedFeaturePlayer._learning_frequency
    episode_size,           \* AdvancedFeaturePlayer._episode_size
    updates,                \* number of times the player has set its parameter vector
    explorations,           \* number of proposals of a training that have explored
    match_count,            \* train_players: the loop variable (0 outside train_players)
    calls,                  \* number of calls the caller of a learner has made
    dot_kernel              \* the np.dot of the numpy build the program runs on

vars == << grid, winner, raised, column, colour, pc, move_number, move,
           propose_move_call_count, receive_reward_call_count, rewards,
           result, add_disc_call_count, script, deviations,
           game_grid, counts, writes,
           is_learning, player_colour, parameters,
           next_afterstate_value, next_afterstate_matrix,
           last_afterstate_value, last_afterstate_matrix, exploration_drawn,
           player_class, experiences, arrays, number_experiences_remembered,
           learning_frequency, episode_size, updates, explorations,
           match_count, calls, dot_kernel >>

boardVars == << grid, winner, raised, column, colour >>
playerVars == << propose_move_call_count, receive_reward_call_count, rewards >>
utilsVars == << game_grid, counts, writes >>
afterStateVars == << is_learning, player_colour, parameters,
                     next_afterstate_value, next_afterstate_matrix,
                     last_afterstate_value, last_afterstate_matrix,
                     exploration_drawn, player_class, experiences, arrays,
                     number_experiences_remembered, learning_frequency,
                     episode_size, updates, explorations >>
trainVars == << match_count, calls >>
buildVars == << dot_kernel >>

\* An afterstate value or matrix that is None.  A value that is a double v is
\* kept as << v >>, so that no double stands for None.
NoAfterstate == << >>

\* An np.dot that rounds each product before it adds it
PlainKernel == "plain"

\* The fields of a player object after AfterStatePlayer.__init__, for the
\* specifications in which no such player takes part
NoLearner ==
    /\ is_learning = TRUE
    /\ player_colour = None
    /\ parameters = << >>
    /\ next_afterstate_value = NoAfterstate
    /\ next_afterstate_matrix = NoAfterstate
    /\ last_afterstate_value = NoAfterstate
    /\ last_afterstate_matrix = NoAfterstate
    /\ exploration_drawn = FALSE
    /\ player_class = "none"
    /\ experiences = << >>
    /\ arrays = << >>
    /\ number_experiences_remembered = 0
    /\ learning_frequency = 0
    /\ episode_size = 0
    /\ updates = 0
    /\ explorations = 0
    /\ match_count = 0
    /\ calls = 0
    /\ dot_kernel = PlainKernel

\* ------------------------------------------------------------ the board
RowIndices == 0..(ROWS - 1)
ColumnIndices == 0..(COLUMNS - 1)

\* ConnectFour.__init__: np.full((ROWS, COLUMNS), EMPTY)
EmptyGrid == [row \in RowIndices |-> [col \in ColumnIndices |-> EMPTY]]

\* numpy indexing of an axis of size COLUMNS: indices -COLUMNS..COLUMNS-1 are
\* accepted, a negative one counting from the end; any other raises IndexError.
IndexInBounds(col) == col >= 0 - COLUMNS /\ col < COLUMNS
NormalizedIndex(col) == col % COLUMNS

\* self._grid[row, col] for a row in range and a column numpy accepts
GridAt(g, row, col) == g[row][NormalizedIndex(col)]

\* The inner "while True" of _check_winner_at_location: the number of cells of
\* colour c met from (x_pos, y_pos), exclusive, stepping by (x_jump, y_jump),
\* until the position leaves 0..ROWS-1 x 0..COLUMNS-1 or the colour differs.
RECURSIVE Scan(_, _, _, _, _, _)
Scan(g, c, x_pos, y_pos, x_jump, y_jump) ==
    LET x == x_pos + x_jump
        y == y_pos + y_jump
    IN  IF x >= ROWS \/ x < 0 \/ y >= COLUMNS \/ y < 0
        THEN 0
        ELSE IF g[x][y] = c
             THEN 1 + Scan(g, c, x, y, x_jump, y_jump)
             ELSE 0

\* The four (x_jump, y_jump) pairs of _check_winner_at_location
Jumps == { <<1, 0>>, <<0, 1>>, <<1, 1>>, <<1, -1>> }

\* same_colour_in_sequence_count for one pair of jumps: the cell itself, the
\* scan along the jump (direction 1) and the scan against it (direction -1).
\* The scans start at the column index as it was passed, not normalised.
same_colour_in_sequence_count(g, row, col, jump) ==
    1 + Scan(g, GridAt(g, row, col), row, col, jump[1], jump[2])
      + Scan(g, GridAt(g, row, col), row, col, 0 - jump[1], 0 - jump[2])

\* Mutant of check_winner_at_location: line 192 with "> 4" for ">= 4"
check_winner_at_location_more_than_four(g, row, col) ==
    IF GridAt(g, row, col) = EMPTY
    THEN FALSE
    ELSE \E jump \in Jumps : same_colour_in_sequence_count(g, row, col, jump) > 4

check_winner_at_location(g, row, col) ==
    IF GridAt(g, row, col) = EMPTY
    THEN FALSE
    ELSE \E jump \in Jumps : same_colour_in_sequence_count(g, row, col, jump) >= 4

\* The rows "for row in range(ROWS)" finds EMPTY in the column
EmptyRows(g, col) == { row \in RowIndices : GridAt(g, row, col) = EMPTY }

Min(S) == CHOOSE x \in S : \A y \in S : x <= y

\* Mutant of add_disc: the for loop without its else clause, so that a call on
\* a full column returns silently instead of raising IllegalMove.
add_disc_without_else(g, w, col, c) ==
    IF ~IndexInBounds(col)
    THEN [grid |-> g, winner |-> w, raised |-> "IndexError"]
    ELSE IF EmptyRows(g, col) = {}
    THEN [grid |-> g, winner |-> w, raised |-> "none"]
    ELSE LET row == Min(EmptyRows(g, col))
             g2 == [g EXCEPT ![row][NormalizedIndex(col)] = c]
         IN  [grid |-> g2,
              winner |-> IF check_winner_at_location(g2, row, col) THEN c ELSE w,
              raised |-> "none"]

\* Mutant of add_disc: the loop of line 76 running over the rows from the top,
\* so that the disc stays in the highest EMPTY cell of the column.
add_disc_from_top(g, w, col, c) ==
    IF ~IndexInBounds(col)
    THEN [grid |-> g, winner |-> w, raised |-> "IndexError"]
    ELSE IF EmptyRows(g, col) = {}
    THEN [grid |-> g, winner |-> w, raised |-> "IllegalMove"]
    ELSE LET row == CHOOSE x \in EmptyRows(g, col) :
                        \A y \in EmptyRows(g, col) : x >= y
             g2 == [g EXCEPT ![row][NormalizedIndex(col)] = c]
         IN  [grid |-> g2,
              winner |-> IF check_winner_at_location(g2, row, col) THEN c ELSE w,
              raised |-> "none"]

\* Mutant of add_disc: the loop of line 76 going on after the first EMPTY cell
\* (no break), so that every EMPTY cell of the column takes the colour.
add_disc_without_break(g, w, col, c) ==
    IF ~IndexInBounds(col)
    THEN [grid |-> g, winner |-> w, raised |-> "IndexError"]
    ELSE IF EmptyRows(g, col) = {}
    THEN [grid |-> g, winner |-> w, raised |-> "IllegalMove"]
    ELSE LET g2 == [row \in RowIndices |->
                       IF row \in EmptyRows(g, col)
                       THEN [g[row] EXCEPT ![NormalizedIndex(col)] = c]
                       ELSE g[row]]
         IN  [grid |-> g2,
              winner |-> IF \E row \in EmptyRows(g, col) :
                                check_winner_at_location(g2, row, col)
                         THEN c ELSE w,
              raised |-> "none"]

\* ConnectFour.add_disc on a board (g, w): the board after the call and what
\* the call raised.
add_disc(g, w, col, c) ==
    IF ~IndexInBounds(col)
    THEN \* self._grid[0, column] raises IndexError in the first iteration
         [grid |-> g, winner |-> w, raised |-> "IndexError"]
    ELSE IF EmptyRows(g, col) = {}
    THEN \* the for loop ends without break
         [grid |-> g, winner |-> w, raised |-> "IllegalMove"]
    ELSE LET row == Min(EmptyRows(g, col))
             g2 == [g EXCEPT ![row][NormalizedIndex(col)] = c]
         IN  [grid |-> g2,
              winner |-> IF check_winner_at_location(g2, row, col) THEN c ELSE w,
              raised |-> "none"]

\* Mutant of legal_moves: line 64 reading row 0 instead of row ROWS-1
legal_moves_bottom_row(g) ==
    SelectSeq([i \in 1..COLUMNS |-> i - 1], LAMBDA col : g[0][col] = EMPTY)

\* ConnectFour.legal_moves: the columns of range(COLUMNS), in that order,
\* whose cell in row ROWS-1 is EMPTY
legal_moves(g) ==
    SelectSeq([i \in 1..COLUMNS |-> i - 1], LAMBDA col : g[ROWS - 1][col] = EMPTY)

\* Mutant of column_identifier: line 99 adding row_multiplier for WHITE too
RECURSIVE column_identifier_same_digit(_, _, _, _)
column_identifier_same_digit(g, col, row, row_multiplier) ==
    IF row >= ROWS THEN 0
    ELSE IF g[row][col] = WHITE \/ g[row][col] = RED
         THEN row_multiplier
                  + column_identifier_same_digit(g, col, row + 1, row_multiplier * 3)
    ELSE 0

\* The loop of lines 97-104 of state_identifier for one column, from the given
\* row upwards: WHITE adds 2 * row_multiplier, RED adds row_multiplier, any
\* other cell ends the loop; row_multiplier is tripled after each disc.
RECURSIVE column_identifier(_, _, _, _)
column_identifier(g, col, row, row_multiplier) ==
    IF row >= ROWS THEN 0
    ELSE IF g[row][col] = WHITE
         THEN 2 * row_multiplier + column_identifier(g, col, row + 1, row_multiplier * 3)
    ELSE IF g[row][col] = RED
         THEN row_multiplier + column_identifier(g, col, row + 1, row_multiplier * 3)
    ELSE 0

\* ConnectFour.state_identifier: the tuple of the column identifiers; entry
\* i of the sequence is the identifier of column i - 1.
state_identifier(g) ==
    [i \in 1..COLUMNS |-> column_identifier(g, i - 1, 0, 1)]

\* Mutant of next_state_identifier: lines 129-132 with the digits of the two
\* colours exchanged
next_state_identifier_digits_exchanged(g, col, c) ==
    IF ~IndexInBounds(col)
    THEN [raised |-> "IndexError", identifier |-> << >>]
    ELSE IF EmptyRows(g, col) = {}
    THEN [raised |-> "IllegalMove", identifier |-> << >>]
    ELSE IF c # WHITE /\ c # RED
    THEN [raised |-> "ValueError", identifier |-> << >>]
    ELSE LET row == Min(EmptyRows(g, col))
             additional_identifier == IF c = WHITE THEN 3 ^ row ELSE 2 * 3 ^ row
         IN  [raised |-> "none",
              identifier |-> [state_identifier(g)
                                EXCEPT ![NormalizedIndex(col) + 1] =
                                           @ + additional_identifier]]

\* ConnectFour.next_state_identifier: what the call raises, and the identifier
\* it returns.  identifier[column] is indexed as a Python list, which takes the
\* same negative indices as the grid.
next_state_identifier(g, col, c) ==
    IF ~IndexInBounds(col)
    THEN [raised |-> "IndexError", identifier |-> << >>]
    ELSE IF EmptyRows(g, col) = {}
    THEN [raised |-> "IllegalMove", identifier |-> << >>]
    ELSE IF c # WHITE /\ c # RED
    THEN [raised |-> "ValueError", identifier |-> << >>]
    ELSE LET row == Min(EmptyRows(g, col))
             additional_identifier == IF c = WHITE THEN 2 * 3 ^ row ELSE 3 ^ row
         IN  [raised |-> "none",
              identifier |-> [state_identifier(g)
                                EXCEPT ![NormalizedIndex(col) + 1] =
                                           @ + additional_identifier]]

\* ------------------------------------------------------------ the board driven directly
\* Sequences of add_disc(column, colour) calls the driver follows when it does
\* not deviate.
\* 1: WHITE stacks four in column 0, RED then stacks four in column 1, column 0
\*    is filled up and called once more;
\* 2: the moves of test_horizontal_winner (connectfour.py, lines 229-231);
\* 3: the moves of test_diagonal_winner (connectfour.py, lines 277-278);
\* 4: the moves of test_vertical_winner (connectfour.py, lines 254-255);
\* 5: column 3 filled with alternating colours as in test_simple
\*    (connectfour.py, lines 380-388), and called once more;
\* 6: column index -1 called until it raises, WHITE four times and RED twice,
\*    then once more, then column 6.
BoardScripts ==
    << << <<0, WHITE>>, <<0, WHITE>>, <<0, WHITE>>, <<0, WHITE>>,
          <<1, RED>>, <<1, RED>>, <<1, RED>>, <<1, RED>>,
          <<0, RED>>, <<0, RED>>, <<0, WHITE>> >>,
       << <<3, WHITE>>, <<4, RED>>, <<5, WHITE>>, <<0, RED>>, <<4, WHITE>>,
          <<0, RED>>, <<2, WHITE>>, <<2, RED>>, <<6, WHITE>>, <<1, RED>>,
          <<6, WHITE>>, <<1, RED>>, <<5, WHITE>>, <<3, RED>> >>,
       << <<1, WHITE>>, <<2, RED>>, <<3, WHITE>>, <<4, RED>>, <<2, WHITE>>,
          <<3, RED>>, <<4, WHITE>>, <<4, RED>>, <<3, WHITE>>, <<3, RED>>,
          <<4, WHITE>> >>,
       << <<0, WHITE>>, <<1, RED>>, <<1, WHITE>>, <<2, RED>>, <<1, WHITE>>,
          <<0, RED>>, <<1, WHITE>>, <<2, RED>>, <<1, WHITE>> >>,
       << <<3, RED>>, <<3, WHITE>>, <<3, RED>>, <<3, WHITE>>, <<3, RED>>,
          <<3, WHITE>>, <<3, RED>> >>,
       << <<-1, WHITE>>, <<-1, WHITE>>, <<-1, WHITE>>, <<-1, WHITE>>,
          <<-1, RED>>, <<-1, RED>>, <<-1, RED>>, <<6, WHITE>> >> >>

InitBoard ==
    /\ grid = EmptyGrid
    /\ winner = None
    /\ raised = "none"
    /\ column = 0
    /\ colour = EMPTY
    /\ add_disc_call_count = 0
    /\ pc = "driver"
    /\ move_number = 0
    /\ move = 0
    /\ propose_move_call_count = [p \in Colours |-> 0]
    /\ receive_reward_call_count = [p \in Colours |-> 0]
    /\ rewards = [p \in Colours |-> << >>]
    /\ result = None
    /\ script \in 1..Len(BoardScripts)
    /\ deviations = 0
    /\ game_grid = << >>
    /\ counts = << >>
    /\ writes = 0
    /\ NoLearner

\* The (column, colour) pairs the driver may pass next: the next call of its
\* script, or, while deviations remain, any input column with any colour.
ScriptedCall ==
    IF add_disc_call_count < Len(BoardScripts[script])
    THEN {BoardScripts[script][add_disc_call_count + 1]}
    ELSE {}

DriverCalls ==
    ScriptedCall
        \cup (IF deviations < MaxDeviations THEN ColumnInputs \X Colours ELSE {})

\* game.add_disc(column, colour) called directly; an exception it raises is
\* caught by the driver, which goes on with the same board.
AddDisc ==
    /\ pc = "driver"
    /\ \E call \in DriverCalls :
          LET out == add_disc(grid, winner, call[1], call[2])
          IN  /\ grid' = out.grid
              /\ winner' = out.winner
              /\ raised' = out.raised
              /\ column' = call[1]
              /\ colour' = call[2]
              /\ deviations' = IF call \in ScriptedCall
                               THEN deviations ELSE deviations + 1
    /\ add_disc_call_count' = add_disc_call_count + 1
    /\ UNCHANGED << pc, move_number, move, playerVars, result, script, utilsVars,
                    afterStateVars, trainVars, buildVars >>

NextBoard == AddDisc

SpecBoard == InitBoard /\ [][NextBoard]_vars

\* ============================================================ utilities
\* connectfourutils.count_open_positions, called on arrays that are written
\* cell by cell as test_count_open_positions does.

\* The shapes of the arrays: that of the test (connectfourutils.py, line 73),
\* one with more columns than rows and one with more rows than columns.
GridShapes == { << 4, 4 >>, << 4, 5 >>, << 5, 4 >> }

\* np.full(shape, value): entry [row][col], both counted from 0
full(shape, value) ==
    [row \in 0..(shape[1] - 1) |-> [col \in 0..(shape[2] - 1) |-> value]]

\* _count_element: the number of positions of the sequence that hold element
count_element(entries, element) ==
    Cardinality({i \in 1..Len(entries) : entries[i] = element})

\* line 49: the directions, as (row step, column step)
directions == << << 1, 0 >>, << 0, 1 >>, << 1, 1 >>, << 1, -1 >> >>

\* Lines 55-66 for one (row, col, direction) that passed the test of lines
\* 51-52: the bucket the four entries fall into, or -1 when they hold the
\* other colour.  The entries are read from the flattened array.
window_bucket(game_grid_arg, num_cols, size, other, player_colour_arg, row, col, direction) ==
    LET start == row * num_cols + col
        jump == direction[1] * num_cols + direction[2]
        range == [k \in 1..4 |-> start + (k - 1) * jump]
        indices == SelectSeq(range, LAMBDA index : index >= 0 /\ index < size)
        entries == [i \in 1..Len(indices) |->
                       game_grid_arg[indices[i] \div num_cols][indices[i] % num_cols]]
    IN  IF \E i \in 1..Len(entries) : entries[i] = other
        THEN -1
        ELSE count_element(entries, player_colour_arg)

\* Mutant of count_open_positions: lines 51-52 without "col + 3 * direction[1] < 0"
count_open_positions_without_left_edge_test(game_grid_arg, player_colour_arg) ==
    LET other == IF player_colour_arg = RED THEN WHITE ELSE RED
        num_rows == Cardinality(DOMAIN game_grid_arg)
        num_cols == Cardinality(DOMAIN game_grid_arg[0])
        size == num_rows * num_cols
        visited == {w \in (0..(num_rows - 1)) \X (0..(num_cols - 1)) \X (1..4) :
                       ~ (\/ w[1] + 3 * directions[w[3]][1] >= num_rows
                          \/ w[2] + 3 * directions[w[3]][2] >= num_cols)}
        bucket == {<< w, window_bucket(game_grid_arg, num_cols, size, other,
                                       player_colour_arg, w[1], w[2],
                                       directions[w[3]]) >> : w \in visited}
    IN  CHOOSE counts_array \in
            {[n \in 0..4 |-> Cardinality({b \in buckets : b[2] = n})] :
                 buckets \in {bucket}} : TRUE

\* count_open_positions: entry n is the number of (row, col, direction) that
\* pass the test of lines 51-52, hold no cell of the other colour, and hold n
\* cells of player_colour.  bucket pairs each visited (row, col, direction)
\* with its bucket; the set of one element binds it to its value, so that the
\* buckets are computed once for the five entries.
count_open_positions(game_grid_arg, player_colour_arg) ==
    LET other == IF player_colour_arg = RED THEN WHITE ELSE RED
        num_rows == Cardinality(DOMAIN game_grid_arg)
        num_cols == Cardinality(DOMAIN game_grid_arg[0])
        size == num_rows * num_cols
        visited == {w \in (0..(num_rows - 1)) \X (0..(num_cols - 1)) \X (1..4) :
                       ~ (\/ w[1] + 3 * directions[w[3]][1] >= num_rows
                          \/ w[2] + 3 * directions[w[3]][2] >= num_cols
                          \/ w[2] + 3 * directions[w[3]][2] < 0)}
        bucket == {<< w, window_bucket(game_grid_arg, num_cols, size, other,
                                       player_colour_arg, w[1], w[2],
                                       directions[w[3]]) >> : w \in visited}
    IN  CHOOSE counts_array \in
            {[n \in 0..4 |-> Cardinality({b \in buckets : b[2] = n})] :
                 buckets \in {bucket}} : TRUE

\* The assignments of test_count_open_positions (lines 75, 77, 79), each as
\* (rows written, column, value): two cells, then the whole of column 1.
TestWrites(g) ==
    << << {0}, 0, WHITE >>, << {0}, 1, RED >>, << DOMAIN g, 1, RED >> >>

\* game_grid[rows, col] = value
assign(g, rows, col, value) ==
    [row \in DOMAIN g |-> IF row \in rows THEN [g[row] EXCEPT ![col] = value] ELSE g[row]]

InitCount ==
    /\ grid = EmptyGrid
    /\ winner = None
    /\ raised = "none"
    /\ column = 0
    /\ colour = EMPTY
    /\ add_disc_call_count = 0
    /\ pc = "count"
    /\ move_number = 0
    /\ move = 0
    /\ propose_move_call_count = [p \in Colours |-> 0]
    /\ receive_reward_call_count = [p \in Colours |-> 0]
    /\ rewards = [p \in Colours |-> << >>]
    /\ result = None
    /\ script = 0
    /\ deviations = 0
    /\ game_grid \in {full(shape, EMPTY) : shape \in GridShapes}
    /\ counts = << >>
    /\ writes = 0
    /\ NoLearner

\* The assignments the driver may make next: the next one of the test, or,
\* while deviations remain, a colour written to any one cell.
ScriptedWrite ==
    IF writes < Len(TestWrites(game_grid))
    THEN {TestWrites(game_grid)[writes + 1]}
    ELSE {}

GridWrites ==
    ScriptedWrite
        \cup (IF deviations < MaxDeviations
              THEN {<< {row}, col, value >> :
                        row \in DOMAIN game_grid, col \in DOMAIN game_grid[0],
                        value \in Colours}
              ELSE {})

\* count_open_positions(game_grid, colour), for each of the two colours
CountOpenPositions ==
    /\ pc = "count"
    /\ counts' = [c \in Colours |-> count_open_positions(game_grid, c)]
    /\ pc' = "write"
    /\ UNCHANGED << boardVars, playerVars, add_disc_call_count, move_number, move,
                    result, script, deviations, game_grid, writes,
                    afterStateVars, trainVars, buildVars >>

\* One assignment to game_grid
WriteGrid ==
    /\ pc = "write"
    /\ \E w \in GridWrites :
          /\ game_grid' = assign(game_grid, w[1], w[2], w[3])
          /\ deviations' = IF w \in ScriptedWrite THEN deviations ELSE deviations + 1
    /\ writes' = writes + 1
    /\ pc' = "count"
    /\ UNCHANGED << boardVars, playerVars, add_disc_call_count, move_number, move,
                    result, script, counts, afterStateVars, trainVars, buildVars >>

NextCount == CountOpenPositions \/ WriteGrid

SpecCount == InitCount /\ [][NextCount]_vars

\* ============================================================ the learner
\* A SimpleFeaturePlayer (an AfterStatePlayer with a linear state value) that
\* is asked for a move on boards set up by add_disc calls.

\* connectfour.other_colour; the ValueError for a value that is no colour is
\* kept as None
opposing_colour(c) ==
    IF c = RED THEN WHITE ELSE IF c = WHITE THEN RED ELSE None

\* ------------------------------------------------------------ numbers
\* The floats of the players are IEEE 754 doubles, and every operation on
\* them rounds its exact result to the nearest double, ties to even, as the
\* hardware does.  A natural number is the sequence of its digits in base
\* 2^14, lowest first, without zeros at the high end (0 is << >>).  A finite
\* double is sign, mantissa and exponent, standing for
\* (-1)^sign * mantissa * 2^exponent, with an odd mantissa below 2^53 and an
\* exponent of at least -1074 (mantissa << >> and exponent 0 for the two
\* zeros), so that equal doubles of equal sign are equal records.

Base == 2^14

Max(S) == CHOOSE x \in S : \A y \in S : y <= x

limb(x, i) == IF i >= 1 /\ i <= Len(x) THEN x[i] ELSE 0

\* Without the zeros at the high end
trim(x) == SubSeq(x, 1, Max({0} \cup {i \in 1..Len(x) : x[i] # 0}))

\* One step of carrying: every digit is brought into 0..Base-1 and what it
\* held beyond goes to the next higher digit
carry_pass(x) ==
    SubSeq([i \in 1..(Len(x) + 1) |-> (limb(x, i) % Base) + (limb(x, i - 1) \div Base)],
           1, Len(x) + 1)

\* Carrying until every digit is in 0..Base-1 (of digits whose total is not
\* negative)
RECURSIVE carry(_)
carry(x) ==
    IF \A i \in 1..Len(x) : x[i] \in 0..(Base - 1)
    THEN trim(x)
    ELSE carry(carry_pass(x))

\* The natural number n < 2^31 as digits
natural(n) == trim(<< n % Base, (n \div Base) % Base, n \div (Base * Base) >>)

natural_plus(x, y) ==
    carry(SubSeq([i \in 1..Max({Len(x), Len(y)}) |-> limb(x, i) + limb(y, i)],
                 1, Max({Len(x), Len(y)})))

\* x - y for x >= y
natural_minus(x, y) ==
    carry(SubSeq([i \in 1..Len(x) |-> x[i] - limb(y, i)], 1, Len(x)))

\* x < y
natural_less(x, y) ==
    \E i \in 1..Max({Len(x), Len(y)}) :
        /\ limb(x, i) < limb(y, i)
        /\ \A j \in (i + 1)..Max({Len(x), Len(y)}) : limb(x, j) = limb(y, j)

\* The sum of x[i] * y[k+1-i] from the i-th digit of x on
RECURSIVE product_digit(_, _, _, _)
product_digit(x, y, k, i) ==
    IF i > Len(x)
    THEN 0
    ELSE x[i] * limb(y, k + 1 - i) + product_digit(x, y, k, i + 1)

\* x * y, one of the two having at most seven digits
natural_times(x, y) ==
    IF x = << >> \/ y = << >>
    THEN << >>
    ELSE carry(SubSeq([k \in 1..(Len(x) + Len(y) - 1) |->
                          IF Len(x) <= Len(y)
                          THEN product_digit(x, y, k, 1)
                          ELSE product_digit(y, x, k, 1)],
                      1, Len(x) + Len(y) - 1))

\* The number of binary digits of x
bit_length(x) ==
    IF x = << >>
    THEN 0
    ELSE 14 * (Len(x) - 1) + Max({k \in 1..14 : x[Len(x)] >= 2^(k - 1)})

\* x * 2^k
shift_left(x, k) ==
    IF x = << >>
    THEN << >>
    ELSE SubSeq([i \in 1..(k \div 14) |-> 0], 1, k \div 14)
             \o carry(SubSeq([i \in 1..Len(x) |-> x[i] * 2^(k % 14)], 1, Len(x)))

\* x \div 2^k
shift_right(x, k) ==
    IF Len(x) <= k \div 14
    THEN << >>
    ELSE trim(SubSeq([i \in 1..(Len(x) - (k \div 14)) |->
                         (x[i + (k \div 14)] \div 2^(k % 14))
                             + (limb(x, i + (k \div 14) + 1) % 2^(k % 14))
                                   * 2^(14 - (k % 14))],
                     1, Len(x) - (k \div 14)))

\* The binary digit of x of weight 2^j
bit_at(x, j) == (limb(x, (j \div 14) + 1) \div 2^(j % 14)) % 2

\* x is a multiple of 2^k
low_bits_zero(x, k) ==
    /\ \A i \in 1..Len(x) : i <= k \div 14 => x[i] = 0
    /\ limb(x, (k \div 14) + 1) % 2^(k % 14) = 0

\* The number of zeros at the low end of the binary digits of x # 0: those of
\* its zero digits and those of the first digit that is not zero
trailing_zeros(x) ==
    LET low == CHOOSE i \in 1..Len(x) : x[i] # 0 /\ \A j \in 1..(i - 1) : x[j] = 0
    IN  14 * (low - 1) + Max({k \in 0..13 : x[low] % 2^k = 0})

\* The doubles that are no numbers
infinity(sign) == [kind |-> "inf", sign |-> sign, mantissa |-> << >>, exponent |-> 0]

nan == [kind |-> "nan", sign |-> 0, mantissa |-> << >>, exponent |-> 0]

\* (-1)^sign * mantissa * 2^exponent, mantissa and exponent being any
exact(sign, mantissa, exponent) ==
    [kind |-> "finite", sign |-> sign, mantissa |-> mantissa, exponent |-> exponent]

\* The double of a value that needs no rounding, with its odd mantissa
canonical(x) ==
    IF x.mantissa = << >>
    THEN exact(x.sign, << >>, 0)
    ELSE CHOOSE outcome \in
             {exact(x.sign, shift_right(x.mantissa, zeros), x.exponent + zeros) :
                  zeros \in {trailing_zeros(x.mantissa)}} : TRUE

\* The mantissa without its dropped low binary digits, rounded to nearest,
\* ties to even
rounded_mantissa(mantissa, dropped) ==
    IF /\ bit_at(mantissa, dropped - 1) = 1
       /\ \/ ~low_bits_zero(mantissa, dropped - 1)
          \/ bit_at(mantissa, dropped) = 1
    THEN natural_plus(shift_right(mantissa, dropped), << 1 >>)
    ELSE shift_right(mantissa, dropped)

\* The double nearest to an exact value: 53 binary digits are kept, fewer
\* below 2^-1022 (first is the weight of the lowest digit kept), and what
\* reaches 2^1024 is infinite
round(x) ==
    CHOOSE outcome \in
        {IF kept.exponent + bit_length(kept.mantissa) > 1024
         THEN infinity(x.sign)
         ELSE canonical(kept) :
             kept \in
                 {IF first <= x.exponent
                  THEN x
                  ELSE exact(x.sign, rounded_mantissa(x.mantissa, first - x.exponent),
                             first) :
                      first \in {Max({x.exponent + bit_length(x.mantissa) - 53,
                                      -1074})}}} : TRUE

\* The exact sum of two exact values; the sum of two zeros of different signs
\* is +0, as is the difference of two equal values
exact_plus(x, y) ==
    IF x.mantissa = << >> /\ y.mantissa # << >> THEN y
    ELSE IF y.mantissa = << >> /\ x.mantissa # << >> THEN x
    ELSE LET first == IF x.exponent <= y.exponent THEN x.exponent ELSE y.exponent
         IN  CHOOSE outcome \in
                 {IF x.sign = y.sign
                  THEN exact(x.sign, natural_plus(pair[1], pair[2]), first)
                  ELSE IF pair[1] = pair[2]
                  THEN exact(0, << >>, first)
                  ELSE IF natural_less(pair[1], pair[2])
                  THEN exact(y.sign, natural_minus(pair[2], pair[1]), first)
                  ELSE exact(x.sign, natural_minus(pair[1], pair[2]), first) :
                      pair \in {<< shift_left(x.mantissa, x.exponent - first),
                                   shift_left(y.mantissa, y.exponent - first) >>}} : TRUE

\* The exact product of two finite doubles
exact_times(x, y) ==
    exact((x.sign + y.sign) % 2, natural_times(x.mantissa, y.mantissa),
          x.exponent + y.exponent)

\* x + y, of doubles or, for the addition of a fused multiply-add, of exact
\* values
plus(x, y) ==
    IF x.kind = "nan" \/ y.kind = "nan" THEN nan
    ELSE IF x.kind = "inf"
    THEN (IF y.kind = "inf" /\ y.sign # x.sign THEN nan ELSE x)
    ELSE IF y.kind = "inf" THEN y
    ELSE round(exact_plus(x, y))

\* -x
negative(x) == [x EXCEPT !.sign = IF x.kind = "nan" THEN 0 ELSE 1 - x.sign]

\* x - y
minus(x, y) == plus(x, negative(y))

\* x * y
times(x, y) ==
    IF x.kind = "nan" \/ y.kind = "nan" THEN nan
    ELSE IF x.kind = "inf" \/ y.kind = "inf"
    THEN (IF (x.kind = "finite" /\ x.mantissa = << >>)
              \/ (y.kind = "finite" /\ y.mantissa = << >>)
          THEN nan
          ELSE infinity((x.sign + y.sign) % 2))
    ELSE round(exact_times(x, y))

\* x * y as a kernel adds it to its sum: rounded, or, by a fused multiply-add
\* (one rounding for the product and the sum), exact
product(kernel, x, y) ==
    IF kernel = "fused" /\ x.kind = "finite" /\ y.kind = "finite"
    THEN exact_times(x, y)
    ELSE times(x, y)

\* x < y
less(x, y) ==
    IF x.kind = "nan" \/ y.kind = "nan" THEN FALSE
    ELSE IF x.kind = "inf" THEN x.sign = 1 /\ ~(y.kind = "inf" /\ y.sign = 1)
    ELSE IF y.kind = "inf" THEN y.sign = 0
    ELSE LET difference == exact_plus(x, negative(y))
         IN  difference.mantissa # << >> /\ difference.sign = 1

\* The double of the integer n
number(n) ==
    round(exact(IF n < 0 THEN 1 ELSE 0, natural(IF n < 0 THEN 0 - n ELSE n), 0))

\* What is left of the digits of x from the i-th on, read as a number, after
\* the division by d < Base
RECURSIVE remainder_from(_, _, _)
remainder_from(x, d, i) ==
    IF i > Len(x) THEN 0 ELSE (remainder_from(x, d, i + 1) * Base + x[i]) % d

\* x \div d for d < Base
short_quotient(x, d) ==
    trim(SubSeq([i \in 1..Len(x) |-> (remainder_from(x, d, i + 1) * Base + x[i]) \div d],
                1, Len(x)))

\* The double a literal of the value n / d stands for, the nearest one, for
\* 0 <= n < 2^31 and 0 < d < Base: the quotient is taken to 70 binary places
\* with one more digit telling whether anything is left
decimal(n, d) ==
    round(exact(0,
                natural_plus(shift_left(short_quotient(shift_left(natural(n), 70), d), 1),
                             natural(IF remainder_from(shift_left(natural(n), 70), d, 1) = 0
                                     THEN 0 ELSE 1)),
                -71))

\* ------------------------------------------------------------ np.dot
\* np.dot of two vectors of doubles is the dot product of the BLAS library
\* the build of numpy is linked with.  For vectors as short as those of the
\* players it adds the products one after the other, in the order of the
\* elements, to a sum that starts at 0.0; whether a product is rounded before
\* it is added (a multiplication and an addition) or not (a fused
\* multiply-add, one rounding for both) is the build's.
DotKernels == {PlainKernel, "fused"}

\* The sum, started at start, after the products of the elements from..to have
\* been added to it, one after the other in the order of the elements
RECURSIVE running_sum(_, _, _, _, _, _)
running_sum(kernel, v, w, from, to, start) ==
    IF from > to
    THEN start
    ELSE IF from = to
    THEN plus(start, product(kernel, v[from], w[from]))
    ELSE CHOOSE outcome \in
             {running_sum(kernel, v, w, ((from + to) \div 2) + 1, to, half) :
                  half \in {running_sum(kernel, v, w, from, (from + to) \div 2, start)}} :
             TRUE

\* np.dot of two vectors of doubles of the same length
dot(kernel, v, w) == running_sum(kernel, v, w, 1, Len(v), exact(0, << >>, 0))

\* vector + vector, vector - vector, and scalar * vector, element by element
vector_plus(v, w) == SubSeq([i \in 1..Len(v) |-> plus(v[i], w[i])], 1, Len(v))

vector_minus(v, w) == SubSeq([i \in 1..Len(v) |-> minus(v[i], w[i])], 1, Len(v))

vector_times(x, v) == SubSeq([i \in 1..Len(v) |-> times(x, v[i])], 1, Len(v))

\* self._alpha = 0.001
alpha == decimal(1, 1000)

\* ------------------------------------------------------------ features
\* SimpleFeaturePlayer._features: buckets 1..4 of the player's open positions,
\* then buckets 1..4 of the opponent's, as the doubles count_open_positions
\* keeps them in
features(grid_matrix, own_colour) ==
    CHOOSE feature_vector \in
        {SubSeq([i \in 1..8 |->
                    number((IF i <= 4 THEN our_openings ELSE opponents_openings)
                               [((i - 1) % 4) + 1])],
                1, 8) :
             our_openings \in {count_open_positions(grid_matrix, own_colour)},
             opponents_openings \in
                 {count_open_positions(grid_matrix, opposing_colour(own_colour))}} :
        TRUE

\* AdvancedFeaturePlayer._features, line 425: np.array([0.05, 0.2, 0.8, 1])
multiplier ==
    SubSeq([i \in 1..4 |-> decimal(<< 5, 2, 8, 1 >>[i], << 100, 10, 10, 1 >>[i])], 1, 4)

\* AdvancedFeaturePlayer._features: the same buckets, each times its multiplier
advanced_features(grid_matrix, own_colour) ==
    CHOOSE feature_vector \in
        {SubSeq([i \in 1..8 |-> times(simple[i], multiplier[((i - 1) % 4) + 1])], 1, 8) :
             simple \in {features(grid_matrix, own_colour)}} :
        TRUE

\* self._features(grid_matrix) of a player of class cls
class_features(cls, grid_matrix, own_colour) ==
    IF cls = "AdvancedFeaturePlayer"
    THEN advanced_features(grid_matrix, own_colour)
    ELSE features(grid_matrix, own_colour)

\* SimpleFeaturePlayer._state_value and AdvancedFeaturePlayer._state_value
state_value(kernel, cls, grid_matrix, own_colour, parameter_vector) ==
    dot(kernel, class_features(cls, grid_matrix, own_colour), parameter_vector)

\* ------------------------------------------------------------ propose_move
\* Mutant of grid_copy: the grid itself for a copy of it
grid_copy_returns_the_grid(g) == [matrix |-> g, shares_memory |-> TRUE]

\* ConnectFour.grid_copy: a new array with the entries of the grid.  Writes
\* to an array that shares its memory with the grid would be writes to the
\* grid.
grid_copy(g) == [matrix |-> g, shares_memory |-> FALSE]

\* Lines 156-159 and 169-172: the row the loop over range(ROWS) ends at: that
\* of the first EMPTY cell of the column, bottom up, or the last row
row_after_loop(grid_matrix, col) ==
    IF EmptyRows(grid_matrix, col) = {} THEN ROWS - 1 ELSE Min(EmptyRows(grid_matrix, col))

\* Lines 156-159 and 169-172: the matrix with own_colour written to the first
\* EMPTY cell of the column, bottom up (unchanged when the column has none)
with_disc(grid_matrix, col, own_colour) ==
    IF EmptyRows(grid_matrix, col) = {}
    THEN grid_matrix
    ELSE [grid_matrix EXCEPT ![Min(EmptyRows(grid_matrix, col))][col] = own_colour]

\* Mutant of greedy_scan: line 175 with ">=" for ">"
RECURSIVE greedy_scan_takes_ties(_, _, _, _, _, _, _, _)
greedy_scan_takes_ties(kernel, cls, grid_matrix, own_colour, parameter_vector, potential_moves, i, best) ==
    IF i > Len(potential_moves)
    THEN [best EXCEPT !.grid_matrix = grid_matrix]
    ELSE LET proposed_move == potential_moves[i]
             row == row_after_loop(grid_matrix, proposed_move)
             afterstate == with_disc(grid_matrix, proposed_move, own_colour)
             afterstate_value ==
                 state_value(kernel, cls, afterstate, own_colour, parameter_vector)
         IN  greedy_scan_takes_ties(
                 kernel, cls, [afterstate EXCEPT ![row][proposed_move] = EMPTY],
                 own_colour, parameter_vector, potential_moves, i + 1,
                 IF ~less(afterstate_value, best.value[1])
                 THEN [value |-> << afterstate_value >>,
                       matrix |-> afterstate,
                       chosen_move |-> << proposed_move >>,
                       afterstates |-> Append(best.afterstates, afterstate),
                       grid_matrix |-> grid_matrix]
                 ELSE [best EXCEPT !.afterstates = Append(@, afterstate)])

\* Mutant of greedy_scan: without line 181, the scratch grid keeping the disc
\* of every column tried
RECURSIVE greedy_scan_without_restore(_, _, _, _, _, _, _, _)
greedy_scan_without_restore(kernel, cls, grid_matrix, own_colour, parameter_vector, potential_moves, i, best) ==
    IF i > Len(potential_moves)
    THEN [best EXCEPT !.grid_matrix = grid_matrix]
    ELSE LET proposed_move == potential_moves[i]
             afterstate == with_disc(grid_matrix, proposed_move, own_colour)
             afterstate_value ==
                 state_value(kernel, cls, afterstate, own_colour, parameter_vector)
         IN  greedy_scan_without_restore(
                 kernel, cls, afterstate,
                 own_colour, parameter_vector, potential_moves, i + 1,
                 IF less(best.value[1], afterstate_value)
                 THEN [value |-> << afterstate_value >>,
                       matrix |-> afterstate,
                       chosen_move |-> << proposed_move >>,
                       afterstates |-> Append(best.afterstates, afterstate),
                       grid_matrix |-> grid_matrix]
                 ELSE [best EXCEPT !.afterstates = Append(@, afterstate)])

\* Lines 167-181: the loop over potential_moves from its i-th element on.
\* grid_matrix is the scratch grid as the iteration finds it; best holds
\* best_afterstate_value, best_afterstate_matrix and chosen_move, and the
\* matrices the loop has evaluated, in order.  Each iteration writes the disc
\* (lines 169-172), evaluates and compares (174-178), and empties the cell
\* again (181).  The result carries the scratch grid as the loop leaves it.
RECURSIVE greedy_scan(_, _, _, _, _, _, _, _)
greedy_scan(kernel, cls, grid_matrix, own_colour, parameter_vector, potential_moves, i, best) ==
    IF i > Len(potential_moves)
    THEN [best EXCEPT !.grid_matrix = grid_matrix]
    ELSE LET proposed_move == potential_moves[i]
             row == row_after_loop(grid_matrix, proposed_move)
             afterstate == with_disc(grid_matrix, proposed_move, own_colour)
             afterstate_value ==
                 state_value(kernel, cls, afterstate, own_colour, parameter_vector)
         IN  greedy_scan(
                 kernel, cls, [afterstate EXCEPT ![row][proposed_move] = EMPTY],
                 own_colour, parameter_vector, potential_moves, i + 1,
                 IF less(best.value[1], afterstate_value)
                 THEN [value |-> << afterstate_value >>,
                       matrix |-> afterstate,
                       chosen_move |-> << proposed_move >>,
                       afterstates |-> Append(best.afterstates, afterstate),
                       grid_matrix |-> grid_matrix]
                 ELSE [best EXCEPT !.afterstates = Append(@, afterstate)])

\* Line 148: self._is_learning and random.random() < self._epsilon, drawn
\* being the outcome of the comparison
explores(is_learning_flag, drawn) == is_learning_flag /\ drawn

\* AfterStatePlayer.propose_move of a player of class cls on the board g.
\* explore is the outcome of line 148, random_choice what
\* random.choice(potential_moves) returns.  The result holds what the call
\* raises, the column it returns, the four afterstate fields after it, the
\* scratch grid as the call leaves it, the matrices the greedy loop has
\* evaluated, and the board's grid after the call.  On a board without a
\* legal column random.choice raises at line 149, before any field is
\* written, and the greedy branch raises at line 190, after lines 187-188
\* have written the -inf and the None the loop started with.
propose_move(kernel, cls, g, own_colour, parameter_vector, next_value, next_matrix, last_value, last_matrix, explore, random_choice) ==
    LET potential_moves == legal_moves(g)
        copy == grid_copy(g)
        grid_matrix == copy.matrix
        board(scratch) == IF copy.shares_memory THEN scratch ELSE g
    IN  IF explore
        THEN IF potential_moves = << >>
             THEN [raised |-> "IndexError", chosen_move |-> << >>,
                   next_value |-> next_value, next_matrix |-> next_matrix,
                   last_value |-> last_value, last_matrix |-> last_matrix,
                   grid_matrix |-> grid_matrix, afterstates |-> << >>,
                   game_grid |-> g]
             ELSE LET afterstate == with_disc(grid_matrix, random_choice, own_colour)
                  IN  [raised |-> "none", chosen_move |-> << random_choice >>,
                       next_value |->
                           << state_value(kernel, cls, afterstate, own_colour,
                                          parameter_vector) >>,
                       next_matrix |-> afterstate,
                       last_value |-> NoAfterstate, last_matrix |-> NoAfterstate,
                       grid_matrix |-> afterstate, afterstates |-> << >>,
                       game_grid |-> board(afterstate)]
        ELSE LET best == greedy_scan(kernel, cls, grid_matrix, own_colour,
                                     parameter_vector, potential_moves, 1,
                                     [value |-> << infinity(1) >>,
                                      matrix |-> NoAfterstate,
                                      chosen_move |-> << >>, afterstates |-> << >>,
                                      grid_matrix |-> grid_matrix])
             IN  [raised |-> IF best.chosen_move = << >>
                             THEN "UnboundLocalError" ELSE "none",
                  chosen_move |-> best.chosen_move,
                  next_value |-> best.value, next_matrix |-> best.matrix,
                  last_value |-> last_value, last_matrix |-> last_matrix,
                  grid_matrix |-> best.grid_matrix, afterstates |-> best.afterstates,
                  game_grid |-> board(best.grid_matrix)]

\* The parameters as the constructors may draw them: the first four in
\* [0, 1), the last four the negatives of such draws, -0.0 for a draw of 0.0
ParameterInputs ==
    { << exact(0, << >>, 0), exact(0, << >>, 0), exact(0, << >>, 0), exact(0, << >>, 0),
         exact(1, << >>, 0), exact(1, << >>, 0), exact(1, << >>, 0), exact(1, << >>, 0) >>,
      << exact(0, << 1 >>, -1), exact(0, << 1 >>, -1),
         exact(0, << 1 >>, -1), exact(0, << 1 >>, -1),
         exact(1, << 1 >>, -1), exact(1, << 1 >>, -1),
         exact(1, << 1 >>, -1), exact(1, << 1 >>, -1) >>,
      << exact(0, << >>, 0), exact(0, << 1 >>, -1),
         exact(0, << >>, 0), exact(0, << 1 >>, -2),
         exact(1, << 1 >>, -1), exact(1, << >>, 0),
         exact(1, << 1 >>, -2), exact(1, << >>, 0) >> }

\* ------------------------------------------------------------ receive_reward
\* Mutant of receive_reward: lines 216-217 left out when the parameters have
\* been updated
receive_reward_keeps_last_after_update(is_learning_flag, own_colour, parameter_vector, next_value, next_matrix, last_value, last_matrix, reward) ==
    LET learns == is_learning_flag /\ last_matrix # NoAfterstate
    IN  [parameters |->
             IF learns
             THEN vector_plus(
                      parameter_vector,
                      vector_times(
                          times(alpha, minus(plus(next_value[1], number(reward)),
                                             last_value[1])),
                          features(last_matrix, own_colour)))
             ELSE parameter_vector,
         updated |-> learns,
         last_value |-> IF learns THEN last_value ELSE next_value,
         last_matrix |-> IF learns THEN last_matrix ELSE next_matrix]

\* Mutant of receive_reward: nabla_vector taken at the next afterstate
receive_reward_nabla_of_next(is_learning_flag, own_colour, parameter_vector, next_value, next_matrix, last_value, last_matrix, reward) ==
    LET learns == is_learning_flag /\ last_matrix # NoAfterstate
    IN  [parameters |->
             IF learns
             THEN vector_plus(
                      parameter_vector,
                      vector_times(
                          times(alpha, minus(plus(next_value[1], number(reward)),
                                             last_value[1])),
                          features(next_matrix, own_colour)))
             ELSE parameter_vector,
         updated |-> learns,
         last_value |-> next_value,
         last_matrix |-> next_matrix]

\* AfterStatePlayer.receive_reward of a SimpleFeaturePlayer, lines 203-217.
\* With learning on and a last afterstate on record (line 203) the parameter
\* vector becomes parameters + alpha * (next_value + reward - last_value) *
\* nabla_vector, nabla_vector being the features of the last afterstate
\* (SimpleFeaturePlayer._nabla_parameter_vector); the last afterstate and
\* value then become the next ones.  updated tells whether
\* _set_parameter_vector has been called.
receive_reward(is_learning_flag, own_colour, parameter_vector, next_value, next_matrix, last_value, last_matrix, reward) ==
    LET learns == is_learning_flag /\ last_matrix # NoAfterstate
    IN  [parameters |->
             IF learns
             THEN vector_plus(
                      parameter_vector,
                      vector_times(
                          times(alpha, minus(plus(next_value[1], number(reward)),
                                             last_value[1])),
                          features(last_matrix, own_colour)))
             ELSE parameter_vector,
         updated |-> learns,
         last_value |-> next_value,
         last_matrix |-> next_matrix]

\* Lines 393-397: target_values, the value of each experience's next matrix
\* plus its reward
target_values(kernel, episode_experiences, own_colour, parameter_vector) ==
    SubSeq([j \in 1..Len(episode_experiences) |->
               plus(state_value(kernel, "AdvancedFeaturePlayer",
                                episode_experiences[j][2], own_colour, parameter_vector),
                    number(episode_experiences[j][3]))],
           1, Len(episode_experiences))

\* Lines 393-397: feature_matrix, the features of each experience's last
\* matrix, one row for each experience
feature_matrix(episode_experiences, own_colour) ==
    SubSeq([j \in 1..Len(episode_experiences) |->
               advanced_features(episode_experiences[j][1], own_colour)],
           1, Len(episode_experiences))

\* np.dot of a matrix and a vector: np.dot of each row and the vector
matrix_dot(kernel, matrix, vector) ==
    SubSeq([j \in 1..Len(matrix) |-> dot(kernel, matrix[j], vector)], 1, Len(matrix))

\* matrix.T of a matrix of rows of eight
transposed(matrix) ==
    SubSeq([i \in 1..8 |-> SubSeq([j \in 1..Len(matrix) |-> matrix[j][i]], 1, Len(matrix))],
           1, 8)

\* Line 403: 2 * np.dot(feature_matrix.T, np.dot(feature_matrix, parameters)
\* - target_values)
nabla_error(kernel, episode_experiences, own_colour, parameter_vector) ==
    CHOOSE outcome \in
        {vector_times(number(2), matrix_dot(kernel, transposed(pair[1]), pair[2])) :
             pair \in
                 {<< rows,
                     vector_minus(
                         matrix_dot(kernel, rows, parameter_vector),
                         target_values(kernel, episode_experiences, own_colour,
                                       parameter_vector)) >> :
                      rows \in {feature_matrix(episode_experiences, own_colour)}}} :
        TRUE

\* Line 389: self._experiences[-self._number_experiences_remembered:]
last_experiences(experiences_arg, remembered) ==
    IF remembered = 0 \/ Len(experiences_arg) <= remembered
    THEN experiences_arg
    ELSE SubSeq(experiences_arg, Len(experiences_arg) - remembered + 1,
                Len(experiences_arg))

\* Line 381 appends a tuple that refers to the two arrays on record; none of
\* them is written to once propose_move has built it.  The arrays that the
\* entries of the buffer refer to are kept in a sequence of their own, each
\* once, and an entry holds the positions of its two arrays in that sequence.
\* The position of an array among the arrays:
array_position(arrays_arg, matrix) ==
    CHOOSE i \in 1..Len(arrays_arg) : arrays_arg[i] = matrix

\* The arrays and a further one, if it is not yet among them
with_array(arrays_arg, matrix) ==
    IF \E i \in 1..Len(arrays_arg) : arrays_arg[i] = matrix
    THEN arrays_arg
    ELSE Append(arrays_arg, matrix)

\* The tuple (last matrix, next matrix, reward) that an entry of the buffer is
experience(arrays_arg, entry) ==
    << arrays_arg[entry[1]], arrays_arg[entry[2]], entry[3] >>

\* The tuples that the entries of a buffer are
experience_tuples(arrays_arg, entries) ==
    SubSeq([k \in 1..Len(entries) |-> experience(arrays_arg, entries[k])],
           1, Len(entries))

\* Mutant of remembered_experiences: lines 380-381 without the test of line 380
remembered_experiences_appends_always(is_learning_flag, next_matrix, last_matrix, reward, experiences_arg, arrays_arg, frequency, remembered) ==
    LET recorded == with_array(with_array(arrays_arg, last_matrix), next_matrix)
        appended ==
            Append(experiences_arg,
                   << array_position(recorded, last_matrix),
                      array_position(recorded, next_matrix), reward >>)
        learns ==
            /\ is_learning_flag
            /\ Len(appended) % frequency = 0
            /\ Len(appended) # 0
    IN  [learns |-> learns,
         arrays |-> recorded,
         experiences |->
             IF learns /\ Len(appended) > remembered
             THEN last_experiences(appended, remembered)
             ELSE appended]

\* Mutant of remembered_experiences: line 387 without
\* "and len(self._experiences) != 0"
remembered_experiences_without_length_test(is_learning_flag, next_matrix, last_matrix, reward, experiences_arg, arrays_arg, frequency, remembered) ==
    LET recorded ==
            IF last_matrix # NoAfterstate
            THEN with_array(with_array(arrays_arg, last_matrix), next_matrix)
            ELSE arrays_arg
        appended ==
            IF last_matrix # NoAfterstate
            THEN Append(experiences_arg,
                        << array_position(recorded, last_matrix),
                           array_position(recorded, next_matrix), reward >>)
            ELSE experiences_arg
        learns ==
            /\ is_learning_flag
            /\ Len(appended) % frequency = 0
    IN  [learns |-> learns,
         arrays |-> recorded,
         experiences |->
             IF learns /\ Len(appended) > remembered
             THEN last_experiences(appended, remembered)
             ELSE appended]

\* Mutant of remembered_experiences: line 387 without "self._is_learning and"
remembered_experiences_without_learning_test(is_learning_flag, next_matrix, last_matrix, reward, experiences_arg, arrays_arg, frequency, remembered) ==
    LET recorded ==
            IF last_matrix # NoAfterstate
            THEN with_array(with_array(arrays_arg, last_matrix), next_matrix)
            ELSE arrays_arg
        appended ==
            IF last_matrix # NoAfterstate
            THEN Append(experiences_arg,
                        << array_position(recorded, last_matrix),
                           array_position(recorded, next_matrix), reward >>)
            ELSE experiences_arg
        learns ==
            /\ Len(appended) % frequency = 0
            /\ Len(appended) # 0
    IN  [learns |-> learns,
         arrays |-> recorded,
         experiences |->
             IF learns /\ Len(appended) > remembered
             THEN last_experiences(appended, remembered)
             ELSE appended]

\* AdvancedFeaturePlayer.receive_reward, lines 380-389: self._experiences as
\* the call leaves it, and whether the call updates the parameters.  The
\* experience is appended when a last afterstate is on record (380-381).
\* With learning on and a buffer whose length is a positive multiple of the
\* learning frequency (387), the parameters are updated, and the buffer is
\* cut to its last remembered entries when it is longer (388-389).
remembered_experiences(is_learning_flag, next_matrix, last_matrix, reward, experiences_arg, arrays_arg, frequency, remembered) ==
    LET recorded ==
            IF last_matrix # NoAfterstate
            THEN with_array(with_array(arrays_arg, last_matrix), next_matrix)
            ELSE arrays_arg
        appended ==
            IF last_matrix # NoAfterstate
            THEN Append(experiences_arg,
                        << array_position(recorded, last_matrix),
                           array_position(recorded, next_matrix), reward >>)
            ELSE experiences_arg
        learns ==
            /\ is_learning_flag
            /\ Len(appended) % frequency = 0
            /\ Len(appended) # 0
    IN  [learns |-> learns,
         arrays |-> recorded,
         experiences |->
             IF learns /\ Len(appended) > remembered
             THEN last_experiences(appended, remembered)
             ELSE appended]

\* AdvancedFeaturePlayer.receive_reward, lines 380-410.  The buffer becomes
\* that of lines 380-389; when the update is due the parameters become
\* parameters - alpha * nabla_error over the episode (391-407);
\* episode_experiences holds the entries of the buffer that random.sample has
\* returned, in the order in which it has returned them.
\* The last afterstate and value then become the next ones (409-410).
advanced_receive_reward(kernel, is_learning_flag, own_colour, parameter_vector, next_value, next_matrix, last_value, last_matrix, reward, experiences_arg, arrays_arg, frequency, remembered, episode_experiences) ==
    CHOOSE outcome \in
        {[parameters |->
              IF buffer.learns
              THEN vector_plus(
                       parameter_vector,
                       vector_times(
                           negative(alpha),
                           nabla_error(kernel,
                                       experience_tuples(buffer.arrays,
                                                         episode_experiences),
                                       own_colour, parameter_vector)))
              ELSE parameter_vector,
          updated |-> buffer.learns,
          experiences |-> buffer.experiences,
          arrays |-> buffer.arrays,
          last_value |-> next_value,
          last_matrix |-> next_matrix] :
             buffer \in {remembered_experiences(
                             is_learning_flag, next_matrix, last_matrix, reward,
                             experiences_arg, arrays_arg, frequency, remembered)}} : TRUE

\* How often a value occurs among the elements of a sequence
occurrences(sequence, value) ==
    Cardinality({k \in 1..Len(sequence) : sequence[k] = value})

\* The sets of k of the places
RECURSIVE places_taken(_, _)
places_taken(places, k) ==
    IF k = 0
    THEN {{}}
    ELSE UNION {{{p} \cup others :
                    others \in places_taken({q \in places : q > p}, k - 1)} :
                p \in places}

\* The ways to fill the places with elements of the population that have one
\* of the values, no value in more places than there are elements with it:
\* the rarest value takes some of the places and the other values the rest
RECURSIVE arrangements(_, _, _)
arrangements(population, values, places) ==
    IF places = {}
    THEN {<< >>}
    ELSE IF Cardinality(values) <= 1
    THEN {[p \in places |-> value] :
              value \in {v \in values :
                            Cardinality(places) <= occurrences(population, v)}}
    ELSE LET rarest ==
                 CHOOSE v \in values :
                     \A w \in values :
                         occurrences(population, v) <= occurrences(population, w)
         IN  UNION {UNION {{[p \in places |->
                                IF p \in taken THEN rarest ELSE others[p]] :
                               others \in arrangements(population,
                                                       values \ {rarest},
                                                       places \ taken)} :
                           taken \in places_taken(places, k)} :
                    k \in 0..Min({occurrences(population, rarest),
                                  Cardinality(places)})}

\* What random.sample(population, min(size, len(population))) may return: the
\* elements at that many different positions of the population, in any order.
\* Told by their values, these are the sequences of that length in which no
\* value occurs more often than in the population.
Samples(population, size) ==
    arrangements(population,
                 {population[k] : k \in 1..Len(population)},
                 1..(IF size < Len(population) THEN size ELSE Len(population)))

\* A new board, a player after __init__, set_player_colour and possibly
\* set_learning_state(False), and the np.dot of the build
InitPropose ==
    /\ grid = EmptyGrid
    /\ winner = None
    /\ raised = "none"
    /\ column = 0
    /\ colour = EMPTY
    /\ add_disc_call_count = 0
    /\ pc = "driver"
    /\ move_number = 0
    /\ move = 0
    /\ propose_move_call_count = [p \in Colours |-> 0]
    /\ receive_reward_call_count = [p \in Colours |-> 0]
    /\ rewards = [p \in Colours |-> << >>]
    /\ result = None
    /\ script \in 1..Len(BoardScripts)
    /\ deviations = 0
    /\ game_grid = << >>
    /\ counts = << >>
    /\ writes = 0
    /\ is_learning \in BOOLEAN
    /\ player_colour \in Colours
    /\ parameters \in ParameterInputs
    /\ next_afterstate_value = NoAfterstate
    /\ next_afterstate_matrix = NoAfterstate
    /\ last_afterstate_value = NoAfterstate
    /\ last_afterstate_matrix = NoAfterstate
    /\ exploration_drawn = FALSE
    /\ player_class = "SimpleFeaturePlayer"
    /\ experiences = << >>
    /\ arrays = << >>
    /\ number_experiences_remembered = 0
    /\ learning_frequency = 0
    /\ episode_size = 0
    /\ updates = 0
    /\ explorations = 0
    /\ match_count = 0
    /\ calls = 0
    /\ dot_kernel \in DotKernels

\* The next add_disc call of the script on the board
AddScriptedDisc ==
    /\ pc = "driver"
    /\ \E call \in ScriptedCall :
          LET out == add_disc(grid, winner, call[1], call[2])
          IN  /\ grid' = out.grid
              /\ winner' = out.winner
              /\ raised' = out.raised
              /\ column' = call[1]
              /\ colour' = call[2]
    /\ add_disc_call_count' = add_disc_call_count + 1
    /\ UNCHANGED << pc, move_number, move, playerVars, result, script, deviations,
                    utilsVars, afterStateVars, trainVars, buildVars >>

\* What random.choice(potential_moves) may return in a call of propose_move;
\* a call that does not explore makes no choice (the first legal column
\* stands for the unused value).
RandomChoices(g, explore) ==
    IF explore
    THEN {legal_moves(g)[i] : i \in 1..Len(legal_moves(g))}
    ELSE {legal_moves(g)[1]}

\* move = player.propose_move(game_grid), called while the board has a legal
\* move, as the contract of propose_move asks
ProposeMoveOnBoard ==
    /\ pc = "driver"
    /\ legal_moves(grid) # << >>
    /\ \E explore \in {explores(is_learning, drawn) : drawn \in BOOLEAN} :
       \E random_choice \in RandomChoices(grid, explore) :
       \E out \in {propose_move(dot_kernel, player_class, grid, player_colour,
                                parameters,
                                next_afterstate_value, next_afterstate_matrix,
                                last_afterstate_value, last_afterstate_matrix,
                                explore, random_choice)} :
              /\ exploration_drawn' = explore
              /\ move' = out.chosen_move[1]
              /\ next_afterstate_value' = out.next_value
              /\ next_afterstate_matrix' = out.next_matrix
              /\ last_afterstate_value' = out.last_value
              /\ last_afterstate_matrix' = out.last_matrix
    /\ pc' = "proposed"
    /\ UNCHANGED << boardVars, add_disc_call_count, move_number, playerVars, result,
                    script, deviations, utilsVars,
                    is_learning, player_colour, parameters, player_class,
                    experiences, arrays, number_experiences_remembered,
                    learning_frequency, episode_size, updates, explorations,
                    trainVars, buildVars >>

NextPropose == AddScriptedDisc \/ ProposeMoveOnBoard

SpecPropose == InitPropose /\ [][NextPropose]_vars

\* ============================================================ the match
max_number_of_moves == ROWS * COLUMNS

\* players[move_number % 2] and players[(move_number + 1) % 2]; a player is
\* named by its colour.
current_colour(n) == IF n % 2 = 0 THEN WHITE ELSE RED
other_colour(n) == IF (n + 1) % 2 = 0 THEN WHITE ELSE RED

Init ==
    /\ grid = EmptyGrid
    /\ winner = None
    /\ raised = "none"
    /\ column = 0
    /\ colour = EMPTY
    /\ add_disc_call_count = 0
    /\ pc = "propose_move"
    /\ move_number = 0
    /\ move = 0
    /\ propose_move_call_count = [p \in Colours |-> 0]
    /\ receive_reward_call_count = [p \in Colours |-> 0]
    /\ rewards = [p \in Colours |-> << >>]
    /\ result = None
    /\ script = 0
    /\ deviations = 0
    /\ game_grid = << >>
    /\ counts = << >>
    /\ writes = 0
    /\ NoLearner

\* The columns the current player may return from propose_move: the column
\* of the script, or, while deviations remain, any input column.
ProposedColumns ==
    {DrawScript[move_number + 1]}
        \cup (IF deviations < MaxDeviations THEN ColumnInputs ELSE {})

\* receive_reward(reward) of the afterstate player: that of its class.  For an
\* AdvancedFeaturePlayer the episode is any of those that random.sample may
\* return when the call updates.
PlayerReceivesReward(reward) ==
    IF player_class = "AdvancedFeaturePlayer"
    THEN \E buffer \in {remembered_experiences(
                            is_learning, next_afterstate_matrix,
                            last_afterstate_matrix, reward, experiences, arrays,
                            learning_frequency, number_experiences_remembered)} :
         \E episode_experiences \in (IF buffer.learns
                                     THEN Samples(buffer.experiences, episode_size)
                                     ELSE {<< >>}) :
         \E out \in {advanced_receive_reward(
                         dot_kernel, is_learning, player_colour, parameters,
                         next_afterstate_value, next_afterstate_matrix,
                         last_afterstate_value, last_afterstate_matrix, reward,
                         experiences, arrays, learning_frequency,
                         number_experiences_remembered, episode_experiences)} :
             /\ parameters' = out.parameters
             /\ experiences' = out.experiences
             /\ arrays' = out.arrays
             /\ updates' = updates + (IF out.updated THEN 1 ELSE 0)
             /\ last_afterstate_value' = out.last_value
             /\ last_afterstate_matrix' = out.last_matrix
             /\ UNCHANGED << is_learning, player_colour, next_afterstate_value,
                             next_afterstate_matrix, exploration_drawn, player_class,
                             number_experiences_remembered, learning_frequency,
                             episode_size, explorations, deviations >>
    ELSE \E out \in {receive_reward(
                         is_learning, player_colour, parameters,
                         next_afterstate_value, next_afterstate_matrix,
                         last_afterstate_value, last_afterstate_matrix, reward)} :
             /\ parameters' = out.parameters
             /\ updates' = updates + (IF out.updated THEN 1 ELSE 0)
             /\ last_afterstate_value' = out.last_value
             /\ last_afterstate_matrix' = out.last_matrix
             /\ UNCHANGED << is_learning, player_colour, next_afterstate_value,
                             next_afterstate_matrix, exploration_drawn, player_class,
                             experiences, arrays, number_experiences_remembered,
                             learning_frequency, episode_size, explorations,
                             deviations >>

\* player.receive_reward(reward), seen from play; the player of the colour
\* player_colour, if there is one, is the afterstate player
ReceiveReward(player, reward) ==
    /\ receive_reward_call_count' =
           [receive_reward_call_count EXCEPT ![player] = @ + 1]
    /\ rewards' = [rewards EXCEPT ![player] = Append(@, <<reward, move_number>>)]
    /\ UNCHANGED propose_move_call_count
    /\ IF player = player_colour
       THEN PlayerReceivesReward(reward)
       ELSE UNCHANGED << afterStateVars, deviations >>

\* play returns value
Return(value) ==
    /\ pc' = "done"
    /\ result' = value
    /\ UNCHANGED move_number

\* The end of the loop body: the next iteration of
\* "for move_number in range(max_number_of_moves)", or the end of the loop
\* (play then falls off its end and returns None implicitly).
NextIteration ==
    IF move_number + 1 < max_number_of_moves
    THEN /\ move_number' = move_number + 1
         /\ pc' = "propose_move"
         /\ UNCHANGED result
    ELSE /\ pc' = "exhausted"
         /\ result' = None
         /\ UNCHANGED move_number

\* line 50: move = current_player.propose_move(game_grid)
ProposeMove ==
    /\ pc = "propose_move"
    /\ \E c \in ProposedColumns :
          /\ move' = c
          /\ deviations' = IF c = DrawScript[move_number + 1]
                           THEN deviations ELSE deviations + 1
    /\ propose_move_call_count' =
           [propose_move_call_count EXCEPT ![current_colour(move_number)] = @ + 1]
    /\ pc' = "add_disc"
    /\ UNCHANGED << boardVars, add_disc_call_count, move_number,
                    receive_reward_call_count, rewards, result, script, utilsVars,
                    afterStateVars, trainVars, buildVars >>

\* Mutant of BranchAfterAddDisc: line 88 without "if move_number > 0", so that
\* the first move of the game rewards the player who has not moved yet.
BranchAfterAddDisc_without_first_move_guard(out_raised, out_winner, n) ==
    IF out_raised = "IndexError" THEN "raised"
    ELSE IF out_raised = "IllegalMove" THEN "illegal_current"
    ELSE IF out_winner # None THEN "win_current"
    ELSE IF n = max_number_of_moves - 1 THEN "draw_current"
    ELSE "legal_other"

\* Mutant of BranchAfterAddDisc: without the test of line 68, so that play goes
\* on with the next move after a winning disc.
BranchAfterAddDisc_without_winner_test(out_raised, out_winner, n) ==
    IF out_raised = "IndexError" THEN "raised"
    ELSE IF out_raised = "IllegalMove" THEN "illegal_current"
    ELSE IF n = max_number_of_moves - 1 THEN "draw_current"
    ELSE IF n > 0 THEN "legal_other"
    ELSE "next_iteration"

\* lines 52-54, 68, 77-79, 86-88: where play goes after add_disc, given what
\* the call raised, the board's winner after it, and the move number.  An
\* IllegalMove is caught (line 54); any other exception leaves play.
BranchAfterAddDisc(out_raised, out_winner, n) ==
    IF out_raised = "IndexError" THEN "raised"
    ELSE IF out_raised = "IllegalMove" THEN "illegal_current"
    ELSE IF out_winner # None THEN "win_current"
    ELSE IF n = max_number_of_moves - 1 THEN "draw_current"
    ELSE IF n > 0 THEN "legal_other"
    ELSE "next_iteration"

\* line 53: game_grid.add_disc(move, current_colour), and the branch taken
AddDiscStep ==
    /\ pc = "add_disc"
    /\ LET out == add_disc(grid, winner, move, current_colour(move_number))
           branch == BranchAfterAddDisc(out.raised, out.winner, move_number)
       IN  /\ grid' = out.grid
           /\ winner' = out.winner
           /\ raised' = out.raised
           /\ column' = move
           /\ colour' = current_colour(move_number)
           /\ add_disc_call_count' = add_disc_call_count + 1
           /\ IF branch = "next_iteration"
              THEN NextIteration
              ELSE pc' = branch /\ UNCHANGED << move_number, result >>
    /\ UNCHANGED << move, playerVars, script, deviations, utilsVars,
                    afterStateVars, trainVars, buildVars >>

\* line 55: current_player.receive_reward(REWARD_ILLEGAL_MOVE); lines 58, 66
RewardIllegalCurrent ==
    /\ pc = "illegal_current"
    /\ ReceiveReward(current_colour(move_number), REWARD_ILLEGAL_MOVE)
    /\ IF move_number > 0
       THEN pc' = "illegal_other" /\ UNCHANGED << move_number, result >>
       ELSE Return(other_colour(move_number))
    /\ UNCHANGED << boardVars, add_disc_call_count, move, script, utilsVars, trainVars, buildVars >>

\* Mutant of RewardIllegalOther: line 66 returning current_colour
RewardIllegalOther_returns_mover ==
    /\ pc = "illegal_other"
    /\ ReceiveReward(other_colour(move_number), REWARD_WIN)
    /\ Return(current_colour(move_number))
    /\ UNCHANGED << boardVars, add_disc_call_count, move, script, utilsVars, trainVars, buildVars >>

\* line 59: other_player.receive_reward(REWARD_WIN); line 66: return other_colour
RewardIllegalOther ==
    /\ pc = "illegal_other"
    /\ ReceiveReward(other_colour(move_number), REWARD_WIN)
    /\ Return(other_colour(move_number))
    /\ UNCHANGED << boardVars, add_disc_call_count, move, script, utilsVars, trainVars, buildVars >>

\* line 69: current_player.receive_reward(REWARD_WIN)
RewardWinCurrent ==
    /\ pc = "win_current"
    /\ ReceiveReward(current_colour(move_number), REWARD_WIN)
    /\ pc' = "win_other"
    /\ UNCHANGED << boardVars, add_disc_call_count, move_number, move, result,
                    script, utilsVars, trainVars, buildVars >>

\* Mutant of RewardLossOther: line 70 passing REWARD_WIN, as line 69 does
RewardLossOther_rewards_win ==
    /\ pc = "win_other"
    /\ ReceiveReward(other_colour(move_number), REWARD_WIN)
    /\ Return(current_colour(move_number))
    /\ UNCHANGED << boardVars, add_disc_call_count, move, script, utilsVars, trainVars, buildVars >>

\* line 70: other_player.receive_reward(REWARD_LOSS); line 76: return current_colour
RewardLossOther ==
    /\ pc = "win_other"
    /\ ReceiveReward(other_colour(move_number), REWARD_LOSS)
    /\ Return(current_colour(move_number))
    /\ UNCHANGED << boardVars, add_disc_call_count, move, script, utilsVars, trainVars, buildVars >>

\* line 80: current_player.receive_reward(REWARD_DRAW)
RewardDrawCurrent ==
    /\ pc = "draw_current"
    /\ ReceiveReward(current_colour(move_number), REWARD_DRAW)
    /\ pc' = "draw_other"
    /\ UNCHANGED << boardVars, add_disc_call_count, move_number, move, result,
                    script, utilsVars, trainVars, buildVars >>

\* line 81: other_player.receive_reward(REWARD_DRAW); line 85: return None
RewardDrawOther ==
    /\ pc = "draw_other"
    /\ ReceiveReward(other_colour(move_number), REWARD_DRAW)
    /\ Return(None)
    /\ UNCHANGED << boardVars, add_disc_call_count, move, script, utilsVars, trainVars, buildVars >>

\* Mutant of RewardLegalOther: line 89 rewarding current_player
RewardLegalOther_rewards_mover ==
    /\ pc = "legal_other"
    /\ ReceiveReward(current_colour(move_number), REWARD_LEGAL_MOVE)
    /\ NextIteration
    /\ UNCHANGED << boardVars, add_disc_call_count, move, script, utilsVars, trainVars, buildVars >>

\* line 89: other_player.receive_reward(REWARD_LEGAL_MOVE), then the next move
RewardLegalOther ==
    /\ pc = "legal_other"
    /\ ReceiveReward(other_colour(move_number), REWARD_LEGAL_MOVE)
    /\ NextIteration
    /\ UNCHANGED << boardVars, add_disc_call_count, move, script, utilsVars, trainVars, buildVars >>

Next ==
    \/ ProposeMove
    \/ AddDiscStep
    \/ RewardIllegalCurrent
    \/ RewardIllegalOther
    \/ RewardWinCurrent
    \/ RewardLossOther
    \/ RewardDrawCurrent
    \/ RewardDrawOther
    \/ RewardLegalOther

Spec == Init /\ [][Next]_vars

\* ============================================================ training
\* train_players with an afterstate player (a SimpleFeaturePlayer or an
\* AdvancedFeaturePlayer) of the colour player_colour and, for the other
\* colour, a HumanPlayer, whose propose_move returns the integer that the
\* user has typed.  The matches are played by play, with the actions of the
\* match.

\* number_of_matches
MaxMatches == 2

\* AdvancedFeaturePlayer.__init__: the values of
\* _number_experiences_remembered, _episode_size and _learning_frequency
initial_number_experiences_remembered == 1000
initial_episode_size == 100
initial_learning_frequency == 100

\* The afterstate players that are trained, as their constructors leave
\* them: the class, the parameters the constructor has drawn and, for an
\* AdvancedFeaturePlayer, the fields _number_experiences_remembered,
\* _learning_frequency and _episode_size.
PlayerInputs ==
    { [class |-> "SimpleFeaturePlayer",
       parameters |-> << exact(0, << 1 >>, -1), exact(0, << 1 >>, -1),
                         exact(0, << 1 >>, -1), exact(0, << 1 >>, -1),
                         exact(1, << 1 >>, -1), exact(1, << 1 >>, -1),
                         exact(1, << 1 >>, -1), exact(1, << 1 >>, -1) >>,
       remembered |-> 0, frequency |-> 0, size |-> 0],
      [class |-> "SimpleFeaturePlayer",
       parameters |-> << exact(0, << >>, 0), exact(0, << >>, 0),
                         exact(0, << >>, 0), exact(0, << >>, 0),
                         exact(1, << >>, 0), exact(1, << >>, 0),
                         exact(1, << >>, 0), exact(1, << >>, 0) >>,
       remembered |-> 0, frequency |-> 0, size |-> 0],
      [class |-> "AdvancedFeaturePlayer",
       parameters |-> << exact(0, << 1 >>, -1), exact(0, << 1 >>, -1),
                         exact(0, << 1 >>, -1), exact(0, << 1 >>, -1),
                         exact(1, << 1 >>, -1), exact(1, << 1 >>, -1),
                         exact(1, << 1 >>, -1), exact(1, << 1 >>, -1) >>,
       remembered |-> initial_number_experiences_remembered,
       frequency |-> initial_learning_frequency,
       size |-> initial_episode_size] }

\* What the user of the HumanPlayer types (connectfourplayers.py lines
\* 87-94): in every match the n-th column of the script is what the n-th
\* propose_move of the HumanPlayer returns, legal or not.
\* 1: column 0 every time;
\* 2: the columns with which RED fills the grid without a line of four
\*    against a SimpleFeaturePlayer that plays WHITE without exploring, with
\*    the parameters 0.5 (four times) and -0.5 (four times).
OpponentScripts ==
    << << 0, 0, 0, 0, 0, 0, 0, 0, 0, 0, 0, 0, 0, 0, 0, 0, 0, 0, 0, 0, 0 >>,
       << 0, 0, 3, 0, 1, 0, 0, 1, 1, 2, 2, 2, 4, 2, 5, 5, 4, 5, 6, 6, 6 >> >>

\* What line 148 may draw in a call of propose_move: random.random() is drawn
\* only when the player is learning, and it may fall below epsilon or not
ExplorationDraws == IF is_learning THEN BOOLEAN ELSE {FALSE}

\* The arguments of train_players (connectfourmain.py line 9) and what the
\* user of the HumanPlayer types: the afterstate player, the colour it plays,
\* whether set_learning_state(False) has been called on it since its
\* construction, and the script of the HumanPlayer on the other side.
\* A player that is not learning meets both scripts; a player that is
\* learning meets the user who types column 0 every time.
TrainingInputs ==
    { input \in [script : 1..Len(OpponentScripts), player_colour : Colours,
                 player : PlayerInputs, is_learning : BOOLEAN] :
          input.is_learning => input.script = 1 }

\* train_players has been called with an afterstate player and a HumanPlayer,
\* before line 21
InitTrain ==
    /\ grid = EmptyGrid
    /\ winner = None
    /\ raised = "none"
    /\ column = 0
    /\ colour = EMPTY
    /\ add_disc_call_count = 0
    /\ pc = "train"
    /\ move_number = 0
    /\ move = 0
    /\ propose_move_call_count = [p \in Colours |-> 0]
    /\ receive_reward_call_count = [p \in Colours |-> 0]
    /\ rewards = [p \in Colours |-> << >>]
    /\ result = None
    /\ deviations = 0
    /\ game_grid = << >>
    /\ counts = << >>
    /\ writes = 0
    /\ next_afterstate_value = NoAfterstate
    /\ next_afterstate_matrix = NoAfterstate
    /\ last_afterstate_value = NoAfterstate
    /\ last_afterstate_matrix = NoAfterstate
    /\ exploration_drawn = FALSE
    /\ experiences = << >>
    /\ arrays = << >>
    /\ \E input \in TrainingInputs :
          /\ script = input.script
          /\ player_colour = input.player_colour
          /\ is_learning = input.is_learning
          /\ player_class = input.player.class
          /\ parameters = input.player.parameters
          /\ number_experiences_remembered = input.player.remembered
          /\ learning_frequency = input.player.frequency
          /\ episode_size = input.player.size
    /\ updates = 0
    /\ explorations = 0
    /\ match_count = 0
    /\ calls = 0
    /\ dot_kernel \in DotKernels

\* connectfourmain.py lines 22-23: the next match.play(); connectfourgame.py
\* lines 42-47: play starts on a new board
StartMatch ==
    /\ pc \in {"train", "done", "exhausted"}
    /\ match_count < MaxMatches
    /\ match_count' = match_count + 1
    /\ grid' = EmptyGrid
    /\ winner' = None
    /\ raised' = "none"
    /\ column' = 0
    /\ colour' = EMPTY
    /\ add_disc_call_count' = 0
    /\ pc' = "propose_move"
    /\ move_number' = 0
    /\ move' = 0
    /\ result' = None
    /\ UNCHANGED << playerVars, script, deviations, utilsVars, afterStateVars,
                    calls, buildVars >>

\* move = player.propose_move(game_grid) called on the afterstate player with
\* the board as it is
PlayerProposal ==
    /\ \E drawn \in ExplorationDraws :
       \E explore \in {explores(is_learning, drawn)} :
       \E random_choice \in RandomChoices(grid, explore) :
       \E out \in {propose_move(dot_kernel, player_class, grid, player_colour,
                                parameters,
                                next_afterstate_value, next_afterstate_matrix,
                                last_afterstate_value, last_afterstate_matrix,
                                explore, random_choice)} :
              /\ grid' = out.game_grid
              /\ exploration_drawn' = explore
              /\ move' = out.chosen_move[1]
              /\ next_afterstate_value' = out.next_value
              /\ next_afterstate_matrix' = out.next_matrix
              /\ last_afterstate_value' = out.last_value
              /\ last_afterstate_matrix' = out.last_matrix
    /\ propose_move_call_count' =
           [propose_move_call_count EXCEPT ![player_colour] = @ + 1]
    /\ UNCHANGED << winner, raised, column, colour, add_disc_call_count, move_number,
                    receive_reward_call_count, rewards, result, script, deviations,
                    utilsVars, is_learning, player_colour, parameters, player_class,
                    experiences, arrays, number_experiences_remembered,
                    learning_frequency, episode_size, updates, match_count, buildVars >>

\* line 50 of play, the current player being the afterstate player; the
\* exploratory branch is taken in at most MaxExplorations proposals of a
\* training
PlayerProposesMove ==
    /\ pc = "propose_move"
    /\ current_colour(move_number) = player_colour
    /\ PlayerProposal
    /\ explorations' = explorations + (IF exploration_drawn' THEN 1 ELSE 0)
    /\ explorations' <= MaxExplorations
    /\ pc' = "add_disc"
    /\ UNCHANGED calls

\* line 50 of play, the current player being the HumanPlayer, which returns
\* the next column of its script
OpponentProposesMove ==
    /\ pc = "propose_move"
    /\ current_colour(move_number) # player_colour
    /\ move' = OpponentScripts[script][(move_number \div 2) + 1]
    /\ propose_move_call_count' =
           [propose_move_call_count EXCEPT ![current_colour(move_number)] = @ + 1]
    /\ pc' = "add_disc"
    /\ UNCHANGED << boardVars, add_disc_call_count, move_number,
                    receive_reward_call_count, rewards, result, script, deviations,
                    utilsVars, afterStateVars, trainVars, buildVars >>

NextTrain ==
    \/ StartMatch
    \/ PlayerProposesMove
    \/ OpponentProposesMove
    \/ AddDiscStep
    \/ RewardIllegalCurrent
    \/ RewardIllegalOther
    \/ RewardWinCurrent
    \/ RewardLossOther
    \/ RewardDrawCurrent
    \/ RewardDrawOther
    \/ RewardLegalOther

SpecTrain == InitTrain /\ [][NextTrain]_vars

\* ============================================================ the callers
\* An afterstate player as its constructor leaves it, whose methods are
\* called by a caller that holds a new board and follows a script of calls.
\* receive_reward reads the fields of the player only: with a last afterstate
\* on record every call of an AdvancedFeaturePlayer appends, as in a
\* training, in which the buffer takes some hundred matches to reach the
\* lengths of _learning_frequency and _number_experiences_remembered.

\* The number of receive_reward calls of the longest scripts
MaxRewards == 1102

\* The rewards of play
Rewards ==
    {REWARD_DRAW, REWARD_LEGAL_MOVE, REWARD_ILLEGAL_MOVE, REWARD_LOSS, REWARD_WIN}

\* The scripts of the callers: the colour the player is given, and the calls
\* in order, each entry a method, the number of calls of it that follow each
\* other, and what is passed: for receive_reward the rewards of which any is
\* passed, for set_learning_state the flag.  An add_disc call puts the next
\* disc of the drawn game on the board.
\* 1: on a board with two legal columns, one proposal, and rewards until the
\*    buffer has outgrown _number_experiences_remembered + _learning_frequency;
\* 2: on the same board, one proposal, rewards until the buffer holds
\*    _learning_frequency records, a second proposal and two rewards;
\* 3: learning switched off, one proposal on the new board, and as many
\*    rewards as in 1;
\* 4: on the board of 1, a proposal and rewards past _learning_frequency
\*    records, learning switched off and rewards past twice as many, a
\*    proposal and two rewards, learning switched on and rewards past thrice
\*    as many;
\* 5: on a board with three legal columns, three proposals, each followed by
\*    a reward, the first a REWARD_LEGAL_MOVE, and a further reward;
\* 6: on the board of 1, a proposal and two rewards, learning switched off,
\*    a proposal and two rewards, learning switched on, and a reward;
\* 7: on the board of 1, learning switched off, a proposal and rewards until
\*    the buffer holds _learning_frequency records, a proposal and a reward,
\*    learning switched on, and rewards until the buffer holds twice as many;
\* 8: on the new board, two proposals, each followed by a reward;
\* 9: on a board with three legal columns a proposal with learning off and
\*    a reward, on the board two discs later a proposal with learning on and
\*    rewards until the buffer holds _learning_frequency records, the first
\*    of which differs from the others.
CallScripts ==
    << [colour |-> WHITE,
        calls |-> << << "add_disc", 40, 0 >>,
                     << "propose_move", 1, 0 >>,
                     << "receive_reward", MaxRewards, {REWARD_WIN} >> >>],
       [colour |-> WHITE,
        calls |-> << << "add_disc", 40, 0 >>,
                     << "propose_move", 1, 0 >>,
                     << "receive_reward", 1, {REWARD_LEGAL_MOVE} >>,
                     << "receive_reward", initial_learning_frequency,
                        {REWARD_LOSS} >>,
                     << "propose_move", 1, 0 >>,
                     << "receive_reward", 2, Rewards >> >>],
       [colour |-> WHITE,
        calls |-> << << "set_learning_state", 1, FALSE >>,
                     << "propose_move", 1, 0 >>,
                     << "receive_reward", MaxRewards, {REWARD_LEGAL_MOVE} >> >>],
       [colour |-> WHITE,
        calls |-> << << "add_disc", 40, 0 >>,
                     << "propose_move", 1, 0 >>,
                     << "receive_reward", initial_learning_frequency + 50,
                        {REWARD_WIN} >>,
                     << "set_learning_state", 1, FALSE >>,
                     << "receive_reward", initial_learning_frequency - 40,
                        {REWARD_WIN} >>,
                     << "propose_move", 1, 0 >>,
                     << "receive_reward", 2, {REWARD_WIN} >>,
                     << "set_learning_state", 1, TRUE >>,
                     << "receive_reward", initial_learning_frequency,
                        {REWARD_WIN} >> >>],
       [colour |-> WHITE,
        calls |-> << << "add_disc", 38, 0 >>,
                     << "propose_move", 1, 0 >>,
                     << "receive_reward", 1, {REWARD_LEGAL_MOVE} >>,
                     << "propose_move", 1, 0 >>,
                     << "receive_reward", 1, Rewards >>,
                     << "propose_move", 1, 0 >>,
                     << "receive_reward", 2, Rewards >> >>],
       [colour |-> WHITE,
        calls |-> << << "add_disc", 40, 0 >>,
                     << "propose_move", 1, 0 >>,
                     << "receive_reward", 2, Rewards >>,
                     << "set_learning_state", 1, FALSE >>,
                     << "propose_move", 1, 0 >>,
                     << "receive_reward", 2, Rewards >>,
                     << "set_learning_state", 1, TRUE >>,
                     << "receive_reward", 1, Rewards >> >>],
       [colour |-> WHITE,
        calls |-> << << "add_disc", 40, 0 >>,
                     << "set_learning_state", 1, FALSE >>,
                     << "propose_move", 1, 0 >>,
                     << "receive_reward", initial_learning_frequency + 1,
                        {REWARD_ILLEGAL_MOVE} >>,
                     << "propose_move", 1, 0 >>,
                     << "receive_reward", 1, {REWARD_ILLEGAL_MOVE} >>,
                     << "set_learning_state", 1, TRUE >>,
                     << "receive_reward", initial_learning_frequency - 1,
                        {REWARD_ILLEGAL_MOVE} >> >>],
       [colour |-> RED,
        calls |-> << << "propose_move", 1, 0 >>,
                     << "receive_reward", 1, {REWARD_LEGAL_MOVE} >>,
                     << "propose_move", 1, 0 >>,
                     << "receive_reward", 1, Rewards >> >>],
       [colour |-> WHITE,
        calls |-> << << "add_disc", 38, 0 >>,
                     << "set_learning_state", 1, FALSE >>,
                     << "propose_move", 1, 0 >>,
                     << "receive_reward", 1, {REWARD_LEGAL_MOVE} >>,
                     << "set_learning_state", 1, TRUE >>,
                     << "add_disc", 2, 0 >>,
                     << "propose_move", 1, 0 >>,
                     << "receive_reward", initial_learning_frequency,
                        {REWARD_LOSS} >> >>] >>

\* The scripts that call an AdvancedFeaturePlayer until its buffer is cut
ReplayScripts == {1, 2, 3, 4, 9}

\* The scripts that call a player of either class
LearnerScripts == 5..8

\* The entry of the call that follows the first made calls of the entries
\* from the i-th on, << "none", 0, 0 >> when there is none
RECURSIVE scripted_call(_, _, _)
scripted_call(entries, i, made) ==
    IF i > Len(entries)
    THEN << "none", 0, 0 >>
    ELSE IF made < entries[i][2]
    THEN entries[i]
    ELSE scripted_call(entries, i + 1, made - entries[i][2])

\* The call the caller makes next
NextCall == scripted_call(CallScripts[script].calls, 1, calls)

\* A new board and a player after __init__ and set_player_colour
InitCaller ==
    /\ grid = EmptyGrid
    /\ winner = None
    /\ raised = "none"
    /\ column = 0
    /\ colour = EMPTY
    /\ add_disc_call_count = 0
    /\ pc = "caller"
    /\ move_number = 0
    /\ move = 0
    /\ propose_move_call_count = [p \in Colours |-> 0]
    /\ receive_reward_call_count = [p \in Colours |-> 0]
    /\ rewards = [p \in Colours |-> << >>]
    /\ result = None
    /\ deviations = 0
    /\ game_grid = << >>
    /\ counts = << >>
    /\ writes = 0
    /\ is_learning = TRUE
    /\ player_colour = CallScripts[script].colour
    /\ next_afterstate_value = NoAfterstate
    /\ next_afterstate_matrix = NoAfterstate
    /\ last_afterstate_value = NoAfterstate
    /\ last_afterstate_matrix = NoAfterstate
    /\ exploration_drawn = FALSE
    /\ experiences = << >>
    /\ arrays = << >>
    /\ updates = 0
    /\ explorations = 0
    /\ match_count = 0
    /\ calls = 0
    /\ dot_kernel \in DotKernels

\* An AdvancedFeaturePlayer and the caller of one of the long scripts
InitReplay ==
    /\ script \in ReplayScripts
    /\ \E player \in {input \in PlayerInputs : input.class = "AdvancedFeaturePlayer"} :
          /\ player_class = player.class
          /\ parameters = player.parameters
          /\ number_experiences_remembered = player.remembered
          /\ learning_frequency = player.frequency
          /\ episode_size = player.size
    /\ InitCaller

\* A player of either class and the caller of one of the other scripts
InitLearner ==
    /\ script \in LearnerScripts
    /\ \E player \in PlayerInputs :
          /\ player_class = player.class
          /\ parameters = player.parameters
          /\ number_experiences_remembered = player.remembered
          /\ learning_frequency = player.frequency
          /\ episode_size = player.size
    /\ InitCaller

\* game_grid.add_disc(column, colour), the next call of the script: the next
\* disc of the drawn game
CallerAddsDisc ==
    /\ NextCall[1] = "add_disc"
    /\ LET out == add_disc(grid, winner, DrawScript[add_disc_call_count + 1],
                           current_colour(add_disc_call_count))
       IN  /\ grid' = out.grid
           /\ winner' = out.winner
           /\ raised' = out.raised
    /\ column' = DrawScript[add_disc_call_count + 1]
    /\ colour' = current_colour(add_disc_call_count)
    /\ add_disc_call_count' = add_disc_call_count + 1
    /\ calls' = calls + 1
    /\ UNCHANGED << pc, move_number, move, playerVars, result, script, deviations,
                    utilsVars, afterStateVars, match_count, buildVars >>

\* player.set_learning_state(is_on), the next call of the script
CallerSetsLearningState ==
    /\ NextCall[1] = "set_learning_state"
    /\ is_learning' = NextCall[3]
    /\ calls' = calls + 1
    /\ UNCHANGED << boardVars, pc, move_number, move, playerVars, result,
                    add_disc_call_count, script, deviations, utilsVars,
                    player_colour, parameters, next_afterstate_value,
                    next_afterstate_matrix, last_afterstate_value,
                    last_afterstate_matrix, exploration_drawn, player_class,
                    experiences, arrays, number_experiences_remembered,
                    learning_frequency, episode_size, updates, explorations,
                    match_count, buildVars >>

\* move = player.propose_move(game_grid), the next call of the script
CallerProposesMove ==
    /\ NextCall[1] = "propose_move"
    /\ PlayerProposal
    /\ pc' = "proposed"
    /\ calls' = calls + 1
    /\ UNCHANGED explorations

\* player.receive_reward(reward), the next call of the script
CallerRewards ==
    /\ NextCall[1] = "receive_reward"
    /\ pc' = "rewarded"
    /\ \E reward \in NextCall[3] : ReceiveReward(player_colour, reward)
    /\ calls' = calls + 1
    /\ UNCHANGED << boardVars, move_number, move, result, add_disc_call_count,
                    script, utilsVars, match_count, buildVars >>

NextCaller ==
    \/ CallerAddsDisc
    \/ CallerSetsLearningState
    \/ CallerProposesMove
    \/ CallerRewards

SpecReplay == InitReplay /\ [][NextCaller]_vars

SpecLearner == InitLearner /\ [][NextCaller]_vars

\* ============================================================ properties
\* ------------------------------------------------------------ vocabulary
\* The rewards a player received while play was at move number n, in order
RewardsAt(player, n) ==
    LET at == SelectSeq(rewards[player], LAMBDA e : e[2] = n)
    IN  [i \in 1..Len(at) |-> at[i][1]]

\* Number of propose_move calls made on the two players together
TotalProposals == propose_move_call_count[WHITE] + propose_move_call_count[RED]

\* The grid holds four cells of colour c in a row along one of the four lines,
\* read off the grid alone (no wraparound).
LineOfFour(g, c) ==
    \E row \in RowIndices, col \in ColumnIndices, jump \in Jumps :
        \A k \in 0..3 :
            /\ row + k * jump[1] \in RowIndices
            /\ col + k * jump[2] \in ColumnIndices
            /\ g[row + k * jump[1]][col + k * jump[2]] = c

GridFull(g) == \A row \in RowIndices, col \in ColumnIndices : g[row][col] # EMPTY

ColumnFull(g, col) == \A row \in RowIndices : g[row][col] # EMPTY

\* play has ended: by a return, by an exception, or by falling off the loop
Ended == pc \in {"done", "raised", "exhausted"}

\* ------------------------------------------------------------ C1
\* C1: for each player, propose_move and receive_reward alternate strictly,
\* starting with propose_move: at every point of play the number of
\* propose_move calls minus the number of receive_reward calls is 0 or 1 (so
\* receive_reward is never called when the counts are equal), and when play
\* returns the two counts are equal.
C1_AlternationAndBalance ==
    \A player \in Colours :
        /\ propose_move_call_count[player] - receive_reward_call_count[player]
               \in {0, 1}
        /\ pc = "done" =>
               receive_reward_call_count[player] = propose_move_call_count[player]

C1_Witness ==
    /\ pc = "done"
    /\ \A player \in Colours :
           /\ propose_move_call_count[player] >= 3
           /\ receive_reward_call_count[player] = propose_move_call_count[player]

\* ------------------------------------------------------------ C2
\* C2: when play has returned after the board rejected the move of ply n with
\* IllegalMove, the mover received REWARD_ILLEGAL_MOVE exactly once (and
\* nothing else at that ply), the other player received REWARD_WIN exactly once
\* if n > 0 and nothing if n = 0, the rejected proposal was the last call of
\* propose_move, no call can follow, and play returned the other player's colour.
C2_IllegalMovePath ==
    (pc = "done" /\ raised = "IllegalMove") =>
        /\ RewardsAt(current_colour(move_number), move_number)
               = << REWARD_ILLEGAL_MOVE >>
        /\ Len(SelectSeq(rewards[current_colour(move_number)],
                         LAMBDA e : e[1] = REWARD_ILLEGAL_MOVE)) = 1
        /\ RewardsAt(other_colour(move_number), move_number)
               = IF move_number > 0 THEN << REWARD_WIN >> ELSE << >>
        /\ Len(SelectSeq(rewards[other_colour(move_number)],
                         LAMBDA e : e[1] = REWARD_WIN))
               = IF move_number > 0 THEN 1 ELSE 0
        /\ TotalProposals = move_number + 1
        /\ ~ ENABLED Next
        /\ result = other_colour(move_number)

C2_Witness ==
    /\ pc = "done"
    /\ raised = "IllegalMove"
    /\ move_number > 0
    /\ result = other_colour(move_number)

\* ------------------------------------------------------------ C3
\* C3: when play has returned after a successfully applied move made the board
\* report a winner, the mover received REWARD_WIN and the other player
\* REWARD_LOSS, each exactly once, the winning move was the last propose_move
\* and the last add_disc, no call can follow, and play returned the mover's
\* colour, which is board.winner().
C3_WinPath ==
    (pc = "done" /\ raised = "none" /\ winner # None) =>
        /\ RewardsAt(current_colour(move_number), move_number) = << REWARD_WIN >>
        /\ RewardsAt(other_colour(move_number), move_number) = << REWARD_LOSS >>
        /\ Len(SelectSeq(rewards[current_colour(move_number)],
                         LAMBDA e : e[1] = REWARD_WIN)) = 1
        /\ Len(SelectSeq(rewards[other_colour(move_number)],
                         LAMBDA e : e[1] = REWARD_LOSS)) = 1
        /\ TotalProposals = move_number + 1
        /\ add_disc_call_count = move_number + 1
        /\ ~ ENABLED Next
        /\ result = current_colour(move_number)
        /\ result = winner

C3_Witness ==
    /\ pc = "done"
    /\ raised = "none"
    /\ winner = RED
    /\ result = RED
    /\ LineOfFour(grid, RED)

\* ------------------------------------------------------------ C4
\* C4: when play has returned with all 42 cells filled and no line of four on
\* the grid, board.winner() is None, each player received REWARD_DRAW exactly
\* once, on the 42nd move, and play returned None.
C4_DrawPath ==
    (pc = "done" /\ GridFull(grid)
         /\ ~ LineOfFour(grid, WHITE) /\ ~ LineOfFour(grid, RED)) =>
        /\ winner = None
        /\ \A player \in Colours :
               RewardsAt(player, max_number_of_moves - 1) = << REWARD_DRAW >>
        /\ result = None

\* The drawn game as the two players play it with legal columns
C4_Witness ==
    /\ pc = "done"
    /\ GridFull(grid)
    /\ winner = None
    /\ result = None

\* ------------------------------------------------------------ C5
\* C5: every ply n after which play went on (a successful move, no winner, not
\* the 42nd) delivered exactly one reward, REWARD_LEGAL_MOVE, to the player who
\* did not move, and none to the mover; ply 0 delivered no reward to anyone.
C5_DeferredLegalMoveReward ==
    \A n \in 0..(max_number_of_moves - 1) :
        n < move_number =>
            /\ RewardsAt(current_colour(n), n) = << >>
            /\ RewardsAt(other_colour(n), n)
                   = IF n > 0 THEN << REWARD_LEGAL_MOVE >> ELSE << >>

C5_Witness ==
    /\ pc = "propose_move"
    /\ move_number = 3
    /\ RewardsAt(WHITE, 0) = << >>
    /\ RewardsAt(RED, 0) = << >>
    /\ RewardsAt(WHITE, 1) = << REWARD_LEGAL_MOVE >>
    /\ RewardsAt(RED, 2) = << REWARD_LEGAL_MOVE >>

\* ------------------------------------------------------------ C6
\* C6: play makes at most 42 propose_move calls, never falls off its loop, and
\* whenever it has ended it has ended by returning WHITE, RED or None.
C6_EndsByReturn ==
    /\ TotalProposals <= max_number_of_moves
    /\ pc # "exhausted"
    /\ Ended => (pc = "done" /\ result \in {WHITE, RED, None})

\* ------------------------------------------------------------ C7
\* C7: no exception leaves play, and a proposed column outside 0..6 ends the
\* match through the illegal-move path.
C7_NoMoveErrorEscapes ==
    /\ pc # "raised"
    /\ (add_disc_call_count > 0 /\ column \notin ColumnIndices) =>
           /\ raised = "IllegalMove"
           /\ pc \in {"illegal_current", "illegal_other", "done"}

\* ------------------------------------------------------------ C8
\* C8: an add_disc call with a column outside 0..6 raises IllegalMove and
\* leaves the grid and the winner as they were.
C8_OutOfRangeRejected ==
    [][ (add_disc_call_count' = add_disc_call_count + 1
             /\ column' \notin ColumnIndices)
          => (raised' = "IllegalMove" /\ grid' = grid /\ winner' = winner) ]_vars

\* ------------------------------------------------------------ C9
\* C9: an add_disc call on a column of 0..6 that holds 6 discs raises
\* IllegalMove and leaves every cell of the grid and the winner as they were.
C9_FullColumnRejected ==
    [][ (add_disc_call_count' = add_disc_call_count + 1
             /\ column' \in ColumnIndices
             /\ ColumnFull(grid, column'))
          => (raised' = "IllegalMove" /\ grid' = grid /\ winner' = winner) ]_vars

C9_Witness ==
    /\ add_disc_call_count > 0
    /\ column \in ColumnIndices
    /\ ColumnFull(grid, column)
    /\ raised = "IllegalMove"
    /\ winner # None

\* ------------------------------------------------------------ C10
\* C10: once the winner is a colour, no add_disc call changes it.
C10_WinnerNeverChanges ==
    [][ winner # None => winner' = winner ]_vars

\* ------------------------------------------------------------ C11
\* The cell (row, col) lies in four consecutive cells of colour c along the
\* horizontal, the vertical or a diagonal, all four inside the grid.
InRunOfFour(g, row, col, c) ==
    \E jump \in Jumps, k \in 0..3 :
        \A i \in 0..3 :
            /\ row + (i - k) * jump[1] \in RowIndices
            /\ col + (i - k) * jump[2] \in ColumnIndices
            /\ g[row + (i - k) * jump[1]][col + (i - k) * jump[2]] = c

\* An add_disc call on a board without a winner, with a column of 0..6 that
\* has room
LegalCallOnOpenBoard ==
    /\ add_disc_call_count' = add_disc_call_count + 1
    /\ winner = None
    /\ column' \in ColumnIndices
    /\ ~ColumnFull(grid, column')

\* C11: after a legal add_disc on a board without a winner, the winner is the
\* colour of the disc if and only if the cell that took the disc lies in a run
\* of at least four cells of that colour; otherwise the winner stays None.
C11_WinIffRunOfFour ==
    [][ LegalCallOnOpenBoard =>
          \E row \in RowIndices :
              /\ grid[row][column'] = EMPTY
              /\ grid'[row][column'] = colour'
              /\ winner' = IF InRunOfFour(grid', row, column', colour')
                           THEN colour' ELSE None ]_vars

\* The horizontal win of test_horizontal_winner: RED completes columns 0..3 of
\* row 1 with its disc in column 3.
C11_Witness ==
    /\ script = 2
    /\ add_disc_call_count = Len(BoardScripts[2])
    /\ deviations = 0
    /\ column = 3
    /\ colour = RED
    /\ winner = RED
    /\ InRunOfFour(grid, 1, 3, RED)

\* ------------------------------------------------------------ C12
\* C12: for every add_disc call with a column of 0..6 that has room, made on
\* a reachable board, next_state_identifier evaluated on the board before the
\* call raises nothing and returns the identifier that state_identifier gives
\* for the board after the call.
C12_NextIdentifierIsIdentifierAfterMove ==
    [][ (/\ add_disc_call_count' = add_disc_call_count + 1
         /\ column' \in ColumnIndices
         /\ ~ColumnFull(grid, column'))
          => \A next \in {next_state_identifier(grid, column', colour')} :
                 /\ next.raised = "none"
                 /\ raised' = "none"
                 /\ next.identifier = state_identifier(grid') ]_vars

\* Column 3 held RED, WHITE, RED (identifier 1 + 2*3 + 9 = 16); the WHITE disc
\* on top has added 2 * 27, and a RED one would add 81.
C12_Witness ==
    /\ script = 5
    /\ add_disc_call_count = 4
    /\ deviations = 0
    /\ column = 3
    /\ colour = WHITE
    /\ raised = "none"
    /\ state_identifier(grid) = << 0, 0, 0, 70, 0, 0, 0 >>
    /\ next_state_identifier(grid, 3, RED).identifier = << 0, 0, 0, 151, 0, 0, 0 >>

\* ------------------------------------------------------------ C13
\* The grid read back from an identifier: digit number row of entry col + 1,
\* in base 3, is 2 for WHITE, 1 for RED and 0 for EMPTY.
DecodeIdentifier(identifier) ==
    [row \in RowIndices |->
        [col \in ColumnIndices |->
            LET digit == (identifier[col + 1] \div (3 ^ row)) % 3
            IN  IF digit = 2 THEN WHITE ELSE IF digit = 1 THEN RED ELSE EMPTY]]

\* C13: the identifier of a reachable grid determines the grid cell for cell
\* (the grid can be read back from it), so no two different reachable grids
\* share an identifier, and the identifier depends on nothing but the grid.
C13_IdentifierDeterminesGrid ==
    DecodeIdentifier(state_identifier(grid)) = grid

\* Column 0 holds four WHITE discs under two RED ones, column 1 four RED discs
C13_Witness ==
    /\ script = 1
    /\ add_disc_call_count = 10
    /\ deviations = 0
    /\ state_identifier(grid) = << 404, 40, 0, 0, 0, 0, 0 >>
    /\ DecodeIdentifier(<< 404, 40, 0, 0, 0, 0, 0 >>) = grid

\* ------------------------------------------------------------ C14
\* Number of discs in a column
DiscCount(g, col) == Cardinality({row \in RowIndices : g[row][col] # EMPTY})

\* C14: legal_moves is strictly ascending, holds exactly the columns of 0..6
\* with fewer than 6 discs, and is the empty list when all 42 cells are filled.
C14_LegalMovesAreTheOpenColumns ==
    LET moves == legal_moves(grid)
    IN  /\ \A i \in 1..(Len(moves) - 1) : moves[i] < moves[i + 1]
        /\ {moves[i] : i \in 1..Len(moves)}
               = {col \in ColumnIndices : DiscCount(grid, col) < ROWS}
        /\ GridFull(grid) => moves = << >>

\* The drawn game played to its last disc
C14_Witness ==
    /\ GridFull(grid)
    /\ winner = None
    /\ add_disc_call_count = max_number_of_moves
    /\ legal_moves(grid) = << >>

\* ------------------------------------------------------------ C15
\* C15: in every reachable board, after successful and failing calls alike, an
\* EMPTY cell has only EMPTY cells above it in its column.
C15_Gravity ==
    \A col \in ColumnIndices, row \in RowIndices :
        (row + 1 \in RowIndices /\ grid[row][col] = EMPTY)
            => grid[row + 1][col] = EMPTY

\* A failing call on a board that has a full column, a partly filled column
\* and an empty one
C15_Witness ==
    /\ raised # "none"
    /\ \E col \in ColumnIndices : DiscCount(grid, col) = ROWS
    /\ \E col \in ColumnIndices : DiscCount(grid, col) \in 1..(ROWS - 1)
    /\ \E col \in ColumnIndices : DiscCount(grid, col) = 0

\* ------------------------------------------------------------ C17
\* The column of the grid a column index addresses (an index of -7..-1 that
\* the call accepts addresses the column 7 higher)
AddressedColumn(col) == col % COLUMNS

\* C17: an add_disc call that raises nothing changes one cell of the grid: the
\* lowest EMPTY cell of its column takes the colour, all other cells stay.
C17_OneCellChanges ==
    [][ (add_disc_call_count' = add_disc_call_count + 1 /\ raised' = "none") =>
          \E row \in RowIndices :
              /\ grid[row][AddressedColumn(column')] = EMPTY
              /\ \A below \in RowIndices :
                     below < row => grid[below][AddressedColumn(column')] # EMPTY
              /\ colour' # EMPTY
              /\ grid' = [grid EXCEPT ![row][AddressedColumn(column')] = colour']
      ]_vars

\* A disc that landed on two discs, with room left above it
C17_Witness ==
    /\ add_disc_call_count > 0
    /\ raised = "none"
    /\ column \in ColumnIndices
    /\ DiscCount(grid, column) = 3
    /\ grid[2][column] = colour
    /\ grid[3][column] = EMPTY

\* ------------------------------------------------------------ C18
\* C18: in every reachable board, the winner is a colour if and only if the
\* grid holds a line of four discs of one colour.
C18_WinnerIffLineOnBoard ==
    (winner # None) <=> (LineOfFour(grid, WHITE) \/ LineOfFour(grid, RED))

\* ------------------------------------------------------------ C19
\* C19: once the board has a winner, play makes no further add_disc call, and
\* the grid and the winner stay as the winning move left them until play ends.
C19_NoMoveAfterWin ==
    [][ winner # None =>
          /\ add_disc_call_count' = add_disc_call_count
          /\ grid' = grid
          /\ winner' = winner ]_vars

\* WHITE has won and been rewarded; RED is about to receive its loss
C19_Witness ==
    /\ pc = "win_other"
    /\ winner = WHITE
    /\ colour = WHITE
    /\ raised = "none"
    /\ receive_reward_call_count[WHITE] > 0

\* ------------------------------------------------------------ C16
\* The sets of four cells in a line that lie inside an array of the given
\* shape, along the horizontal, the vertical and the two diagonals
WindowsOfShape(shape) ==
    LET cells == (0..(shape[1] - 1)) \X (0..(shape[2] - 1))
        steps == { << 0, 1 >>, << 1, 0 >>, << 1, 1 >>, << -1, 1 >> }
        line(cell, step) ==
            {<< cell[1] + i * step[1], cell[2] + i * step[2] >> : i \in 0..3}
    IN  {window \in {line(cell, step) : cell \in cells, step \in steps} :
             window \subseteq cells}

Windows == [shape \in GridShapes |-> WindowsOfShape(shape)]

WindowsOf(g) == Windows[<< Cardinality(DOMAIN g), Cardinality(DOMAIN g[0]) >>]

\* For each k, the number of windows with k cells of colour c and none of the
\* opposing colour
OpenWindows(g, c) ==
    LET open == {window \in WindowsOf(g) :
                     \A cell \in window : g[cell[1]][cell[2]] \in {c, EMPTY}}
        held == [window \in open |->
                     Cardinality({cell \in window : g[cell[1]][cell[2]] = c})]
    IN  [k \in 0..4 |-> Cardinality({window \in open : held[window] = k})]

\* C16: for the array and each colour, entry k of what count_open_positions
\* returned is the number of windows of four cells inside the array that hold
\* k cells of the colour and none of the opposing colour; on an all-EMPTY
\* array bucket 0 holds all windows and the other buckets are 0.
C16_CountsAreOpenWindows ==
    pc = "write" =>
        \A c \in Colours :
            /\ \A k \in 0..4 : counts[c][k] = OpenWindows(game_grid, c)[k]
            /\ game_grid = full(<< 4, 4 >>, EMPTY)
                   => counts[c] = [k \in 0..4 |-> IF k = 0 THEN 10 ELSE 0]

\* The second assertion of test_count_open_positions: one WHITE disc in the
\* corner of the 4x4 array has moved the three windows through it to bucket 1.
C16_Witness ==
    /\ pc = "write"
    /\ game_grid = assign(full(<< 4, 4 >>, EMPTY), {0}, 0, WHITE)
    /\ counts[WHITE] = [k \in 0..4 |-> IF k = 0 THEN 7 ELSE IF k = 1 THEN 3 ELSE 0]
    /\ Cardinality({window \in WindowsOf(game_grid) : << 0, 0 >> \in window}) = 3

\* ------------------------------------------------------------ C20
\* The value of the board after the player's disc has gone into a column, the
\* board being that which add_disc produces
AfterstateOf(col) == add_disc(grid, winner, col, player_colour).grid

AfterstateValueOf(col) ==
    state_value(dot_kernel, player_class, AfterstateOf(col), player_colour, parameters)

\* The legal columns of the board, each paired with its afterstate value
LegalColumnValues ==
    {<< col, AfterstateValueOf(col) >> :
         col \in {c \in ColumnIndices : ~ColumnFull(grid, c)}}

\* C20: when propose_move has run its greedy branch on a board with a legal
\* column, the column it returned is legal, no legal column has a higher
\* afterstate value, every smaller legal column has a lower one, and the
\* remembered next afterstate and value are those of the returned column.
C20_GreedyTakesFirstMaximum ==
    (pc = "proposed" /\ ~exploration_drawn) =>
        \A values \in {LegalColumnValues} :
            \E chosen \in values :
                /\ chosen[1] = move
                /\ \A other \in values :
                       /\ ~less(chosen[2], other[2])
                       /\ other[1] < move => less(other[2], chosen[2])
                /\ next_afterstate_matrix = AfterstateOf(move)
                /\ next_afterstate_value = << chosen[2] >>

\* A greedy choice that is not the first legal column and has a later legal
\* column with the same value
C20_Witness ==
    /\ pc = "proposed"
    /\ ~exploration_drawn
    /\ ~is_learning
    /\ move > legal_moves(grid)[1]
    /\ \E chosen \in LegalColumnValues :
           /\ chosen[1] = move
           /\ next_afterstate_value = << chosen[2] >>
           /\ \E col \in ColumnIndices :
                  /\ col > move
                  /\ ~ColumnFull(grid, col)
                  /\ AfterstateValueOf(col) = chosen[2]

\* ------------------------------------------------------------ training
\* A step in which receive_reward is called on the afterstate player
PlayerIsRewarded ==
    receive_reward_call_count'[player_colour]
        = receive_reward_call_count[player_colour] + 1

\* A receive_reward of the afterstate player that is the first call made on
\* it since its last propose_move
RewardFollowsProposal == PlayerIsRewarded /\ pc # "rewarded"

\* The move of a game after which the player of colour c is rewarded for the
\* first time: the first move of the other player that follows its own first
\* move (WHITE proposes in move 0, RED in move 1)
FirstRewardedMove(c) == IF c = WHITE THEN 1 ELSE 2

\* The reward of the last receive_reward of the afterstate player
LastReward(history) == history[Len(history)][1]

\* A step in which propose_move is called on the afterstate player
PlayerIsAsked ==
    propose_move_call_count'[player_colour]
        = propose_move_call_count[player_colour] + 1

\* ------------------------------------------------------------ exact values
\* What the updates of the parameters would give without rounding: sums and
\* products of doubles taken exactly, as values mantissa * 2^exponent.

\* |x|
magnitude(x) == [x EXCEPT !.sign = 0]

\* x <= y
at_most(x, y) == ~less(y, x)

\* x - y, exactly
exact_minus(x, y) == exact_plus(x, negative(y))

\* The exact sum of the elements from..to of a sequence
RECURSIVE exact_sum(_, _, _)
exact_sum(v, from, to) ==
    IF from > to
    THEN exact(0, << >>, 0)
    ELSE IF from = to
    THEN v[from]
    ELSE exact_plus(exact_sum(v, from, (from + to) \div 2),
                    exact_sum(v, ((from + to) \div 2) + 1, to))

\* The exact sum of the products of the elements of two vectors of doubles
exact_dot(v, w) ==
    exact_sum(SubSeq([i \in 1..Len(v) |-> exact_times(v[i], w[i])], 1, Len(v)),
              1, Len(v))

\* The exact sum of the magnitudes of those products
magnitude_dot(v, w) ==
    exact_sum(SubSeq([i \in 1..Len(v) |-> magnitude(exact_times(v[i], w[i]))],
                     1, Len(v)),
              1, Len(v))

\* x is finite and differs from the exact value by at most 2^-places times
\* the scale
WithinRounding(x, value, scale, places) ==
    /\ x.kind = "finite"
    /\ at_most(magnitude(exact_minus(x, value)),
               exact_times(exact(0, << 1 >>, 0 - places), scale))

\* ------------------------------------------------------------ C21
\* C21: in every game of a training, the receive_reward that follows the first
\* propose_move of a learning player finds no last afterstate on record and
\* makes no update of the parameters.
C21_FirstRewardOfGameMakesNoUpdate ==
    [][(is_learning /\ PlayerIsRewarded
            /\ move_number = FirstRewardedMove(player_colour))
           => /\ last_afterstate_matrix = NoAfterstate
              /\ last_afterstate_value = NoAfterstate
              /\ updates' = updates
              /\ parameters' = parameters]_vars

\* ------------------------------------------------------------ C22
\* C22: the receive_reward that follows an exploratory propose_move finds the
\* last afterstate and value cleared, leaves the parameters unchanged and
\* appends no experience, whatever the reward.
C22_ExplorationSuppressesUpdate ==
    [][(exploration_drawn /\ RewardFollowsProposal)
           => /\ last_afterstate_matrix = NoAfterstate
              /\ last_afterstate_value = NoAfterstate
              /\ parameters' = parameters
              /\ experiences' = experiences]_vars

\* ------------------------------------------------------------ C23
\* C23: after every receive_reward of an online or a replay learner, with or
\* without an update and with learning on or off, the last afterstate and
\* value are the next afterstate and value that the preceding propose_move
\* has recorded.
C23_LastBecomesNext ==
    [][PlayerIsRewarded
           => /\ last_afterstate_matrix' = next_afterstate_matrix
              /\ last_afterstate_value' = next_afterstate_value
              /\ next_afterstate_matrix' = next_afterstate_matrix
              /\ next_afterstate_value' = next_afterstate_value
              /\ next_afterstate_matrix # NoAfterstate]_vars

\* A replay learner has just made a batched update, in the receive_reward
\* that has brought its buffer to twice _learning_frequency records: its last
\* afterstate is its next one
C23_Witness ==
    /\ pc = "rewarded"
    /\ player_class = "AdvancedFeaturePlayer"
    /\ is_learning
    /\ updates = 1
    /\ Len(experiences) = 2 * learning_frequency
    /\ parameters \notin {input.parameters : input \in PlayerInputs}
    /\ last_afterstate_matrix # NoAfterstate
    /\ last_afterstate_matrix = next_afterstate_matrix
    /\ last_afterstate_value = next_afterstate_value

\* An online learner has just learned from a reward that followed a greedy
\* proposal: its last afterstate is its next one
OnlineLearnerRewarded ==
    /\ pc = "rewarded"
    /\ player_class = "SimpleFeaturePlayer"
    /\ is_learning
    /\ ~exploration_drawn
    /\ updates > 0
    /\ receive_reward_call_count[player_colour] = propose_move_call_count[player_colour]
    /\ last_afterstate_matrix = next_afterstate_matrix
    /\ last_afterstate_value = next_afterstate_value

\* ------------------------------------------------------------ C24
\* A step in which play applies the move of the afterstate player to the board
PlayerMoveIsApplied ==
    /\ pc = "add_disc"
    /\ current_colour(move_number) = player_colour
    /\ add_disc_call_count' = add_disc_call_count + 1

\* C24: whenever add_disc applies the proposed move of an afterstate player
\* without raising, the grid of the board after add_disc is, cell for cell,
\* the next afterstate the player has recorded in propose_move.
C24_BoardBecomesNextAfterstate ==
    [][(PlayerMoveIsApplied /\ raised' = "none")
           => /\ next_afterstate_matrix # NoAfterstate
              /\ \A row \in RowIndices : \A col \in ColumnIndices :
                     grid'[row][col] = next_afterstate_matrix[row][col]]_vars

\* The move of an exploratory proposal has been applied in the second match
\* and the board is the recorded afterstate
C24_Witness ==
    /\ pc \in {"legal_other", "win_current"}
    /\ current_colour(move_number) = player_colour
    /\ match_count = 2
    /\ exploration_drawn
    /\ raised = "none"
    /\ grid = next_afterstate_matrix

\* ------------------------------------------------------------ C25
\* A step in which play calls propose_move on the afterstate player
PlayerProposes ==
    /\ pc = "propose_move"
    /\ current_colour(move_number) = player_colour
    /\ propose_move_call_count'[player_colour]
           = propose_move_call_count[player_colour] + 1

\* The cells in which two grids differ
CellsThatDiffer(g, h) ==
    {cell \in RowIndices \X ColumnIndices : g[cell[1]][cell[2]] # h[cell[1]][cell[2]]}

\* What the greedy branch of propose_move does on the board as it is
GreedyProposal ==
    propose_move(dot_kernel, player_class, grid, player_colour, parameters,
                 next_afterstate_value, next_afterstate_matrix,
                 last_afterstate_value, last_afterstate_matrix, FALSE, 0)

\* C25: propose_move leaves the grid and the winner of the board as they are,
\* in both branches, and the greedy branch empties the cell it has written
\* after every candidate column, so that every matrix it evaluates differs
\* from the grid in exactly one cell and the scratch grid ends equal to it.
C25_ProposeMoveLeavesTheBoard ==
    [][PlayerProposes
           => /\ grid' = grid
              /\ winner' = winner
              /\ Cardinality(CellsThatDiffer(next_afterstate_matrix', grid)) = 1
              /\ ~exploration_drawn' =>
                     \A out \in {GreedyProposal} :
                         /\ out.grid_matrix = grid
                         /\ Len(out.afterstates) = Len(legal_moves(grid))
                         /\ \A k \in 1..Len(out.afterstates) :
                                Cardinality(CellsThatDiffer(out.afterstates[k], grid)) = 1]_vars

\* A greedy proposal made on a board that holds discs and has a full column,
\* for a column that is not the first legal one
C25_Witness ==
    /\ pc = "add_disc"
    /\ current_colour(move_number) = player_colour
    /\ ~exploration_drawn
    /\ ColumnFull(grid, 0)
    /\ move # legal_moves(grid)[1]
    /\ Cardinality(CellsThatDiffer(next_afterstate_matrix, grid)) = 1

\* ------------------------------------------------------------ C26
\* C26: while learning is off, from set_learning_state(False) until
\* set_learning_state(True), no propose_move takes the exploratory branch and
\* no step changes the parameters.
C26_LearningOffFreezesThePlayer ==
    [][(~is_learning /\ ~is_learning')
           => /\ parameters' = parameters
              /\ updates' = updates
              /\ PlayerIsAsked => ~exploration_drawn']_vars

\* With learning off a replay learner has been rewarded with a last
\* afterstate on record, and its buffer holds _learning_frequency records, so
\* that line 387 has been decided by _is_learning alone
C26_Witness ==
    /\ ~is_learning
    /\ pc = "rewarded"
    /\ player_class = "AdvancedFeaturePlayer"
    /\ Len(experiences) = learning_frequency
    /\ experiences[Len(experiences)][3] # 0
    /\ last_afterstate_matrix # NoAfterstate
    /\ updates = 0

\* With learning off an online learner that has learned before has been
\* asked for a move and rewarded with a last afterstate on record
OnlineLearnerFrozen ==
    /\ ~is_learning
    /\ pc = "rewarded"
    /\ player_class = "SimpleFeaturePlayer"
    /\ updates > 0
    /\ LastReward(rewards[player_colour]) # 0
    /\ receive_reward_call_count[player_colour]
           > propose_move_call_count[player_colour]
    /\ last_afterstate_matrix # NoAfterstate

\* ------------------------------------------------------------ C27
\* self._experiences: the tuples (last matrix, next matrix, reward) in it
Experiences == experience_tuples(arrays, experiences)

\* The buffer of the replay learner with the record this call appends, if any
Appended ==
    IF last_afterstate_matrix # NoAfterstate
    THEN Append(Experiences,
                << last_afterstate_matrix, next_afterstate_matrix,
                   LastReward(rewards'[player_colour]) >>)
    ELSE Experiences

\* C27: after every receive_reward of an AdvancedFeaturePlayer the buffer holds
\* at most _number_experiences_remembered records, and the records kept are
\* the most recent ones, in the order in which they were appended.
C27_BufferWithinCapacity ==
    [][(PlayerIsRewarded /\ player_class = "AdvancedFeaturePlayer")
           => /\ Len(experiences') <= number_experiences_remembered
              /\ \E dropped \in 0..Len(Appended) :
                     Experiences' = SubSeq(Appended, dropped + 1, Len(Appended))]_vars

\* ------------------------------------------------------------ C28
\* The test of line 387 on the buffer after the append
BatchIsDue ==
    /\ is_learning
    /\ Len(Appended) % learning_frequency = 0
    /\ Len(Appended) # 0

\* Lines 388-389: the buffer after the append, cut to its last
\* _number_experiences_remembered records
LastRemembered ==
    SubSeq(Appended,
           Max({1, Len(Appended) - number_experiences_remembered + 1}),
           Len(Appended))

\* The features of the two matrices of each record of an episode, and its
\* reward as a double; the entries of the episode refer to the arrays on
\* record, whose features are taken once for each array
EpisodeRows(arrays_arg, episode) ==
    CHOOSE rows \in
        {SubSeq([j \in 1..Len(episode) |->
                    [last |-> of_array[episode[j][1]],
                     next |-> of_array[episode[j][2]],
                     reward |-> number(episode[j][3])]],
                1, Len(episode)) :
             of_array \in {[a \in 1..Len(arrays_arg) |->
                               advanced_features(arrays_arg[a], player_colour)]}} :
        TRUE

\* For each record of an episode, what the value of its last afterstate
\* exceeds its target by, the value of its next afterstate plus its reward,
\* both values taken with the parameters as they are, exactly
Residuals(rows) ==
    SubSeq([j \in 1..Len(rows) |->
               exact_minus(exact_dot(rows[j].last, parameters),
                           exact_plus(exact_dot(rows[j].next, parameters),
                                      rows[j].reward))],
           1, Len(rows))

\* For each record, the sum of the magnitudes of what its residual is made of
ResidualScales(rows) ==
    SubSeq([j \in 1..Len(rows) |->
               exact_plus(magnitude_dot(rows[j].last, parameters),
                          exact_plus(magnitude_dot(rows[j].next, parameters),
                                     magnitude(rows[j].reward)))],
           1, Len(rows))

\* Feature i of the last afterstate of each record
Column(rows, i) == SubSeq([j \in 1..Len(rows) |-> rows[j].last[i]], 1, Len(rows))

\* The parameters' are, up to rounding, the parameters after one step of
\* size alpha down the gradient of the summed squared residuals of the
\* episode: parameter i less 2 * alpha * the sum over the records of feature
\* i of the last afterstate times the residual
IsGradientStep(arrays_arg, episode) ==
    \A rows \in {EpisodeRows(arrays_arg, episode)} :
        \A residuals \in {Residuals(rows)}, scales \in {ResidualScales(rows)} :
            \A i \in 1..8 :
                WithinRounding(
                    parameters'[i],
                    exact_minus(parameters[i],
                                exact_times(exact_times(number(2), alpha),
                                            exact_dot(Column(rows, i), residuals))),
                    exact_plus(magnitude(parameters[i]),
                               exact_times(exact_times(number(2), alpha),
                                           magnitude_dot(Column(rows, i), scales))),
                    40)

\* C28: a receive_reward of an AdvancedFeaturePlayer makes a batched update,
\* and cuts the buffer to its last _number_experiences_remembered records,
\* exactly when learning is on and the length of the buffer after the append
\* of this call, if any, is a positive multiple of _learning_frequency: the
\* parameters then make a gradient step over an episode of the cut buffer.
\* Every other call leaves the parameters and the buffer, but for the
\* appended record, as they are.  Calls that append nothing are tested as
\* well.
C28_BatchedUpdateWhenDue ==
    [][(PlayerIsRewarded /\ player_class = "AdvancedFeaturePlayer")
           => /\ (updates' = updates + 1) <=> BatchIsDue
              /\ updates' # updates + 1 => updates' = updates
              /\ BatchIsDue =>
                     /\ Experiences' = LastRemembered
                     /\ \E episode \in Samples(experiences', episode_size) :
                            IsGradientStep(arrays', episode)
              /\ ~BatchIsDue => /\ parameters' = parameters
                               /\ Experiences' = Appended]_vars

\* The replay learner has made a second batched update in the receive_reward
\* that follows an exploratory proposal, which has appended nothing to a
\* buffer of _learning_frequency records
C28_Witness ==
    /\ player_class = "AdvancedFeaturePlayer"
    /\ pc = "rewarded"
    /\ exploration_drawn
    /\ last_afterstate_matrix # NoAfterstate
    /\ Len(experiences) = learning_frequency
    /\ updates = 2
    /\ parameters \notin {input.parameters : input \in PlayerInputs}

\* A batched update has cut the buffer to its last
\* _number_experiences_remembered records
BufferCut ==
    /\ player_class = "AdvancedFeaturePlayer"
    /\ pc = "rewarded"
    /\ Len(experiences) = number_experiences_remembered
    /\ updates > number_experiences_remembered \div learning_frequency

\* A batched update has been made over a buffer whose first record differs
\* from the others and has changed the parameters: random.sample has had as
\* many outcomes, told by their values, as the episode has places
UpdateOverDifferingRecords ==
    /\ player_class = "AdvancedFeaturePlayer"
    /\ pc = "rewarded"
    /\ updates = 1
    /\ Len(experiences) = learning_frequency
    /\ experiences[1] # experiences[2]
    /\ experiences[1][1] # experiences[1][2]
    /\ Cardinality(Samples(experiences, episode_size)) = episode_size
    /\ parameters \notin {input.parameters : input \in PlayerInputs}

\* With learning off the buffer has passed a multiple of _learning_frequency
\* and no update has been made; learning is on again
UpdateSkippedWhileOff ==
    /\ player_class = "AdvancedFeaturePlayer"
    /\ pc = "rewarded"
    /\ is_learning
    /\ Len(experiences) > 2 * learning_frequency
    /\ updates = 1

\* ------------------------------------------------------------ C29
\* x == y of two doubles: the two zeros are equal
SameValue(x, y) == x.kind # "nan" /\ y.kind # "nan" /\ ~less(x, y) /\ ~less(y, x)

\* A receive_reward of the online learner that learns
OnlineLearnerLearns ==
    /\ PlayerIsRewarded
    /\ player_class = "SimpleFeaturePlayer"
    /\ is_learning
    /\ last_afterstate_matrix # NoAfterstate

\* The TD error of a receive_reward of the online learner, exactly: the
\* recorded next value plus the reward minus the recorded last value
TDError ==
    exact_minus(exact_plus(next_afterstate_value[1],
                           number(LastReward(rewards'[player_colour]))),
                last_afterstate_value[1])

\* The sum of the magnitudes of what the TD error is made of
TDScale ==
    exact_plus(magnitude(next_afterstate_value[1]),
               exact_plus(magnitude(number(LastReward(rewards'[player_colour]))),
                          magnitude(last_afterstate_value[1])))

\* C29: when learning is on and a last afterstate is on record, receive_reward
\* of the online learner adds alpha * (next value + reward - last value) *
\* features(last afterstate) to the parameters, the two values being those
\* recorded by propose_move: each parameter is, up to rounding, what the rule
\* gives without rounding.  A TD error of zero leaves the parameters as they
\* are, and so does a feature of zero its parameter.
C29_OnlineTDStep ==
    [][OnlineLearnerLearns
           => \A td \in {TDError}, scale \in {TDScale} :
              \A gradient \in {features(last_afterstate_matrix, player_colour)} :
                  /\ \A i \in 1..8 :
                         /\ WithinRounding(
                                parameters'[i],
                                exact_plus(parameters[i],
                                           exact_times(exact_times(alpha, td),
                                                       gradient[i])),
                                exact_plus(magnitude(parameters[i]),
                                           exact_times(exact_times(alpha, scale),
                                                       gradient[i])),
                                50)
                         /\ gradient[i].mantissa = << >>
                                => SameValue(parameters'[i], parameters[i])
                  /\ td.mantissa = << >>
                         => \A i \in 1..8 : SameValue(parameters'[i], parameters[i])]_vars

\* The online learner that has learned before is about to be rewarded after
\* a greedy proposal, with a last afterstate on record whose recorded value
\* is no longer the value its parameters give, and whose features differ
\* from those of the next afterstate
C29_Witness ==
    /\ pc = "proposed"
    /\ NextCall[1] = "receive_reward"
    /\ player_class = "SimpleFeaturePlayer"
    /\ is_learning
    /\ ~exploration_drawn
    /\ updates >= 1
    /\ last_afterstate_matrix # NoAfterstate
    /\ last_afterstate_value
           # << state_value(dot_kernel, player_class, last_afterstate_matrix,
                           player_colour, parameters) >>
    /\ features(last_afterstate_matrix, player_colour)
           # features(next_afterstate_matrix, player_colour)

\* The online learner has been rewarded twice since its last proposal, the
\* second time with a reward of zero: that call had a TD error of zero
ZeroTDErrorCase ==
    /\ pc = "rewarded"
    /\ player_class = "SimpleFeaturePlayer"
    /\ is_learning
    /\ updates >= 2
    /\ receive_reward_call_count[player_colour]
           > propose_move_call_count[player_colour]
    /\ LastReward(rewards[player_colour]) = 0

\* ------------------------------------------------------------ C30
\* Bucket 4 of count_open_positions for each colour, as a set of pairs
\* << colour, count >>
BucketFour(g) == {<< c, count_open_positions(g, c)[4] >> : c \in Colours}

\* The scanner of count_open_positions alone: bucket 4 of a colour is at least
\* one exactly when the grid holds four consecutive discs of that colour.
ScannersAgreeOnLines ==
    \A pair \in BucketFour(grid) : (pair[2] >= 1) <=> LineOfFour(grid, pair[1])

\* C30: in every board state of a match, bucket 4 of count_open_positions for
\* a colour is at least one exactly when the grid holds four consecutive discs
\* of that colour, the board's winner has a bucket 4 of at least one, and
\* while the board has no winner bucket 4 is zero for both colours.
C30_ScannersAgree ==
    \A buckets \in {BucketFour(grid)} :
        \A pair \in buckets :
            /\ (pair[2] >= 1) <=> LineOfFour(grid, pair[1])
            /\ winner = pair[1] => pair[2] >= 1
            /\ winner = None => pair[2] = 0

\* ------------------------------------------------------------ C31
\* The buffer of a replay learner is shorter than
\* _number_experiences_remembered + _learning_frequency
BufferBelowCapacityPlusFrequency ==
    player_class = "AdvancedFeaturePlayer"
        => Len(experiences) < number_experiences_remembered + learning_frequency

\* C31: as long as the learning of an AdvancedFeaturePlayer has never been
\* switched off, its buffer is shorter than _number_experiences_remembered +
\* _learning_frequency after every call; records are dropped only by a call
\* that makes the batched update, so that with learning off every
\* receive_reward with a last afterstate on record makes the buffer one record
\* longer and none shortens it; no other call touches the buffer.
C31_BufferGrowth ==
    /\ ([]is_learning) => []BufferBelowCapacityPlusFrequency
    /\ [][/\ (PlayerIsRewarded /\ player_class = "AdvancedFeaturePlayer")
               => /\ (~is_learning => Experiences' = Appended)
                  /\ (Experiences' # Appended => BatchIsDue)
           /\ (~PlayerIsRewarded => experiences' = experiences)]_vars

\* With learning off the buffer has grown beyond
\* _number_experiences_remembered + _learning_frequency records, the last
\* receive_reward having appended one
C31_Witness ==
    /\ player_class = "AdvancedFeaturePlayer"
    /\ ~is_learning
    /\ pc = "rewarded"
    /\ Len(experiences) > number_experiences_remembered + learning_frequency
    /\ experience(arrays, experiences[Len(experiences)])[2] = last_afterstate_matrix

\* Learning has been switched off and on again, and the batched update that
\* followed has left the buffer at thrice _learning_frequency records
UpdatedAfterSwitchingOn ==
    /\ player_class = "AdvancedFeaturePlayer"
    /\ is_learning
    /\ pc = "rewarded"
    /\ updates = 2
    /\ Len(experiences) = 3 * learning_frequency

\* Learning has been on since the player was made and the buffer holds one
\* record less than _number_experiences_remembered + _learning_frequency
LongestBufferWhileLearning ==
    /\ player_class = "AdvancedFeaturePlayer"
    /\ is_learning
    /\ pc = "rewarded"
    /\ Len(experiences) = number_experiences_remembered + learning_frequency - 1

====
